---- MODULE Spec2Model ----
(***************************************************************************)
(* Authenticated-session and token-cache core of crawl-api.                *)
(*                                                                         *)
(* AuthCrawlerService (app/services/auth_crawler_service.py) is modelled   *)
(* as a set of concurrent calls on one asyncio event loop: a step of a     *)
(* call is the code that runs between two awaits.  The browser engine and  *)
(* the filesystem are the environment: every navigation answers            *)
(* nondeterministically (a page, a failed result, or an exception).        *)
(*                                                                         *)
(* XiaohongshuPlatform's token cache (app/platforms/xiaohongshu.py) is     *)
(* modelled with a simulated clock in a second specification, SpecCache.   *)
(***************************************************************************)
EXTENDS Integers, Sequences, FiniteSets, TLC

(***************************************************************************)
(* Bounds of the model.                                                    *)
(***************************************************************************)
\* setup_timeout / wait_time inputs are 0, 10, ..., 10 * MaxTicks seconds
MaxTicks == 3
\* the simulated clock of the token cache runs from 0 to TTL + MaxSlack
MaxSlack == 2

\* Two requests are in flight at a time.  Either may be any operation that
\* reads or writes the files the calls share (the flag file, the profile
\* directory); the timed strategies that touch neither run in the first.
Procs == {"a", "b"}
MainCall == "a"
Timeouts == {10 * k : k \in 0..MaxTicks}

\* site names; medium_com has site-specific indicators in _analyze_login_status
Sites == {"medium_com", "example_com"}

(***************************************************************************)
(* Pages.  A page's html is modelled by the set of phrases that occur in   *)
(* its lower-cased text; `indicator in content_lower` is a substring test. *)
(***************************************************************************)
ConfirmMarker == "auth_setup_done_marker"

\* the indicators that are substrings of a phrase
SubstringsOf(w) == IF w = "my account" THEN {"my account", "account"} ELSE {w}

Contains(html, indicator) == \E w \in html : indicator \in SubstringsOf(w)

Pages == { {},
           {"logout", "my account", "welcome"},
           {"welcome"},
           {"stories"},
           {"login", "logout"},
           {"login", "sign in"},
           {"login", "sign in", "log in", "sign up"},
           {ConfirmMarker} }

\* number of elements of a sequence of indicators that occur in the page
RECURSIVE CountIn(_, _)
CountIn(indicators, html) ==
    IF indicators = <<>> THEN 0
    ELSE (IF Contains(html, Head(indicators)) THEN 1 ELSE 0)
         + CountIn(Tail(indicators), html)

AnyIn(indicators, html) == \E k \in 1..Len(indicators) : Contains(html, indicators[k])

(***************************************************************************)
(* Results of a call.                                                      *)
(***************************************************************************)
NoResult == [kind |-> "pending", status |-> "-", profile_path |-> FALSE, error_type |-> "-"]
\* a returned dict; profile_path tells whether the dict carries that key
Ret(status, pp) == [kind |-> "dict", status |-> status, profile_path |-> pp, error_type |-> "-"]
\* the function ends without a return statement
RetNone == [kind |-> "None", status |-> "-", profile_path |-> FALSE, error_type |-> "-"]
\* a returned data object (CrawlData) or bool
RetData(v) == [kind |-> "data", status |-> v, profile_path |-> FALSE, error_type |-> "-"]
\* CrawlerException(message, error_type)
Raise(t) == [kind |-> "raise", status |-> "-", profile_path |-> FALSE, error_type |-> t]

(***************************************************************************)
(* _analyze_login_status                                                   *)
(***************************************************************************)
success_indicators(site_name) ==
    <<"logout", "sign out", "profile", "account", "dashboard",
      "settings", "my account", "user menu", "welcome">>
    \o (IF site_name = "medium_com"
          THEN <<"write", "stories", "following", "notifications">>
        ELSE IF site_name = "investors_com"
          THEN <<"premium", "watchlist", "portfolio">>
        ELSE <<>>)

login_indicators(site_name) ==
    <<"login", "sign in", "signin", "log in", "authenticate">>
    \o (IF site_name = "medium_com" THEN <<"get started", "sign up">>
        ELSE IF site_name = "investors_com" THEN <<"subscribe", "free trial">>
        ELSE <<>>)

AnalyzeStatusAnySuccess(success_count, login_count) ==
    IF success_count > login_count THEN "success"
    ELSE IF success_count > 0 /\ login_count = 0 THEN "likely_logged_in"
    ELSE IF login_count > success_count THEN "not_logged_in"
    ELSE "uncertain"
AnalyzeStatus(success_count, login_count) ==
    IF success_count > login_count /\ success_count >= 2 THEN "success"
    ELSE IF success_count > 0 /\ login_count = 0 THEN "likely_logged_in"
    ELSE IF login_count > success_count THEN "not_logged_in"
    ELSE "uncertain"

\* the dict it returns has status, message and confidence, and no profile_path
_analyze_login_status(html, site_name) ==
    Ret(AnalyzeStatus(CountIn(success_indicators(site_name), html),
                      CountIn(login_indicators(site_name), html)), FALSE)

(***************************************************************************)
(* Browser resolution.  A disk is the set of candidate paths that exist;   *)
(* each call finds the disk as the environment left it.                    *)
(***************************************************************************)
BrowserPaths == {"env_path", "cfg_path", "auto_path", "fallback_path"}

\* _get_browser_executable_path: env override, config file, auto-detection,
\* then the user-reported path; "none" when all are missing
_get_browser_executable_path(d) ==
    IF "env_path" \in d THEN "env_path"
    ELSE IF "cfg_path" \in d THEN "cfg_path"
    ELSE IF "auto_path" \in d THEN "auto_path"
    ELSE IF "fallback_path" \in d THEN "fallback_path"
    ELSE "none"

\* _create_auth_browser_config: TRUE when a BrowserConfig is returned, FALSE
\* when CrawlerException(browser_not_found) is raised
_create_auth_browser_config(d) ==
    IF _get_browser_executable_path(d) # "none" THEN TRUE
    ELSE "fallback_path" \in d

(***************************************************************************)
(* State.                                                                  *)
(***************************************************************************)
VARIABLES
    profiles,   \* sites whose profile directory ./auth_profiles/<site> exists
    flags,      \* sites whose flag file ./auth_profiles/<site>_browser_active exists
    calls,      \* the calls in flight, one record per slot of the event loop
    token_cache,\* XiaohongshuPlatform._token_cache, a dict
    now,        \* the clock read by datetime.now().timestamp(), in seconds
    stored,     \* history: what the last _cache_token stored, and when
    got,        \* the value the _get_cached_token call of this instant returned
    inp,        \* the arguments of the last call of a function of the platform
    out         \* what that call returned

vars == <<profiles, flags, calls, token_cache, now, stored, got, inp, out>>
cacheVars == <<token_cache, now, stored, got, inp, out>>

SetupOps == {"setup", "debug", "manual", "simple", "interactive", "quick", "simple_wait"}

IdleCall ==
    [op |-> "idle", site |-> "-", pc |-> "idle", timeout |-> 0, same_url |-> FALSE,
     i |-> 0, res |-> NoResult, open |-> FALSE,
     \* history of the call, read by the properties only
     login |-> "-", waited |-> FALSE, flag_made |-> FALSE, tested |-> FALSE,
     elapsed |-> FALSE, detected |-> FALSE, launched |-> FALSE, no_browser |-> FALSE,
     pre_profile |-> FALSE, probe |-> "-",
     \* a close request removed the flag of the site in the current stage of
     \* this manual call: before its own flag write, or in its wait loop
     close_seen |-> FALSE]

\* the outcomes of one crawler.arun(url): a successful result with its html,
\* a result with success = False, an exception whose text says the browser
\* is disconnected/closed, or any other exception
NavOutcomes ==
    [k : {"ok"}, html : Pages] \cup [k : {"fail", "closed", "error"}, html : {{}}]

NavRaised(o) == o.k \in {"closed", "error"}

\* the handler that wraps a call's body: what the caller gets when the body
\* raises CrawlerException(error_type) ("other" is any other exception)
Wrap(op, error_type) ==
    IF op \in SetupOps THEN Raise("setup_failed")
    ELSE IF op = "verify" THEN Ret("error", FALSE)
    ELSE IF error_type = "other" THEN Raise("unexpected")
    ELSE Raise(error_type)

Set(p, c) == calls' = [calls EXCEPT ![p] = c]

\* a new call and its arguments (history: a setup call notes whether the
\* profile directory of its site exists when it is called)
NewCall(op, s, t, same) ==
    [IdleCall EXCEPT !.op = op, !.site = s, !.timeout = t, !.same_url = same,
                     !.pre_profile = (op = "setup" /\ s \in profiles)]

\* the call ends before any browser was launched
Finish(c, r) == [c EXCEPT !.pc = "done", !.res = r, !.i = 0, !.timeout = 0]
\* the call leaves its `async with AsyncWebCrawler` block with result r:
\* the browser is closed (an await) before the caller gets r
\* (the loop counter and the timeout are dead once the body has its result)
Leave(c, r) == [c EXCEPT !.pc = "closing", !.res = r, !.i = 0, !.timeout = 0]

(***************************************************************************)
(* Steps shared by every operation that opens a browser.                   *)
(***************************************************************************)
\* the synchronous head of a setup strategy: _create_auth_browser_config,
\* then `async with AsyncWebCrawler(config=browser_config)` starts the launch
StartSetup(p, op, s, t, same) ==
    /\ calls[p].pc = "idle"
    /\ \E disk \in SUBSET BrowserPaths :
         LET c == NewCall(op, s, t, same) IN
           IF _create_auth_browser_config(disk)
             THEN Set(p, [c EXCEPT !.pc = "launching"])
             ELSE Set(p, Finish([c EXCEPT !.no_browser = TRUE],
                                Wrap(op, "browser_not_found")))
    /\ UNCHANGED <<profiles, flags, cacheVars>>

\* the first navigation each operation awaits once the browser runs
FirstPc(op) == IF op \in SetupOps THEN "login" ELSE "fetch"

\* the persistent-context launch creates user_data_dir when it is missing
LaunchProfilesShared(ps, s) == ps \cup Sites
LaunchProfiles(ps, s) == ps \cup {s}

\* AsyncWebCrawler.__aenter__ completes: the browser runs on the profile
\* directory of the site, or the launch raises
Launched(p) ==
    /\ calls[p].pc = "launching"
    /\ \/ /\ profiles' = LaunchProfiles(profiles, calls[p].site)
          /\ Set(p, [calls[p] EXCEPT !.pc = FirstPc(calls[p].op), !.open = TRUE,
                                     !.launched = TRUE])
       \/ /\ profiles' \in {profiles, LaunchProfiles(profiles, calls[p].site)}
          /\ Set(p, Finish(calls[p], Wrap(calls[p].op, "other")))
    /\ UNCHANGED <<flags, cacheVars>>

\* AsyncWebCrawler.__aexit__ completes: the browser is closed and the caller
\* gets the result
Closed(p) ==
    /\ calls[p].pc = "closing"
    /\ Set(p, [calls[p] EXCEPT !.pc = "done", !.open = FALSE])
    /\ UNCHANGED <<profiles, flags, cacheVars>>

\* the router has answered; the slot is free for the next request
Reap(p) ==
    /\ calls[p].pc = "done"
    /\ Set(p, IdleCall)
    /\ UNCHANGED <<profiles, flags, cacheVars>>

Min(a, b) == IF a < b THEN a ELSE b
Max(a, b) == IF a > b THEN a ELSE b

\* what every strategy does when the login navigation did not succeed:
\* CrawlerException(setup_failed) on a failed result, the handler's wrapping
\* on an exception
LoginFailureUnwrapped(c, o) ==
    Leave([c EXCEPT !.login = "failed"],
          IF NavRaised(o) THEN Raise("unexpected") ELSE Raise("setup_failed"))
LoginFailure(c, o) ==
    Leave([c EXCEPT !.login = "failed"],
          Wrap(c.op, IF NavRaised(o) THEN "other" ELSE "setup_failed"))

(***************************************************************************)
(* setup_auth_profile                                                      *)
(***************************************************************************)
CallSetup(p) ==
    \E s \in Sites, t \in Timeouts : StartSetup(p, "setup", s, t, FALSE)

SetupLoginDone(p) ==
    /\ calls[p].op = "setup" /\ calls[p].pc = "login"
    /\ \E o \in NavOutcomes :
         IF o.k = "ok"
           THEN Set(p, [calls[p] EXCEPT !.pc = "verify", !.login = "ok", !.tested = TRUE])
           ELSE Set(p, LoginFailure(calls[p], o))
    /\ UNCHANGED <<profiles, flags, cacheVars>>

SetupVerdict(html) ==
    IF AnyIn(<<"login", "sign in", "signin">>, html)
       /\ ~AnyIn(<<"logout", "sign out", "account", "profile">>, html)
      THEN Ret("warning", TRUE)
      ELSE Ret("success", TRUE)

SetupVerifyDone(p) ==
    /\ calls[p].op = "setup" /\ calls[p].pc = "verify"
    /\ \E o \in NavOutcomes :
         Set(p, Leave(calls[p],
                      IF o.k = "ok" THEN SetupVerdict(o.html)
                      ELSE Wrap("setup", IF NavRaised(o) THEN "other" ELSE "setup_failed")))
    /\ UNCHANGED <<profiles, flags, cacheVars>>

(***************************************************************************)
(* debug_setup_auth_profile                                                *)
(***************************************************************************)
\* setup_timeout as normalised at the head of the function
DebugTimeout(t) == Max(60, Min(IF t > 1000 THEN t \div 1000 ELSE t, 600))
DebugWaitTime(t) == Min(DebugTimeout(t), 300)

CallDebug(p) ==
    \E s \in Sites, t \in Timeouts, same \in BOOLEAN : StartSetup(p, "debug", s, t, same)

\* after the wait: verify, unless test_url = login_url
DebugAfterWait(c) ==
    IF ~c.same_url
      THEN [c EXCEPT !.pc = "verify", !.elapsed = TRUE, !.tested = TRUE]
      ELSE Leave([c EXCEPT !.elapsed = TRUE], Ret("warning", TRUE))

DebugLoginDone(p) ==
    /\ calls[p].op = "debug" /\ calls[p].pc = "login"
    /\ \E o \in NavOutcomes :
         IF o.k = "ok"
           THEN Set(p, [calls[p] EXCEPT !.pc = "sleep", !.login = "ok", !.i = 0,
                                        !.waited = TRUE])
           \* inner handler: sleep 60 seconds, then re-raise
           ELSE Set(p, [calls[p] EXCEPT !.pc = "err_sleep", !.login = "failed"])
    /\ UNCHANGED <<profiles, flags, cacheVars>>

DebugSleepDone(p) ==
    /\ calls[p].op = "debug" /\ calls[p].pc = "sleep"
    /\ LET c == [calls[p] EXCEPT !.i = @ + 30] IN
         IF c.i < DebugWaitTime(c.timeout)
           THEN Set(p, c)
           ELSE Set(p, DebugAfterWait(c))
    /\ UNCHANGED <<profiles, flags, cacheVars>>

\* a failed verification is only logged: the function then ends without a
\* return statement
DebugVerifyResult(o) == IF o.k = "ok" THEN Ret("success", TRUE) ELSE RetNone

DebugVerifyDone(p) ==
    /\ calls[p].op = "debug" /\ calls[p].pc = "verify"
    /\ \E o \in NavOutcomes :
         IF NavRaised(o)
           THEN Set(p, [calls[p] EXCEPT !.pc = "err_sleep"])
           ELSE Set(p, Leave(calls[p], DebugVerifyResult(o)))
    /\ UNCHANGED <<profiles, flags, cacheVars>>

DebugErrSleepDone(p) ==
    /\ calls[p].op = "debug" /\ calls[p].pc = "err_sleep"
    /\ Set(p, Leave(calls[p], Wrap("debug", "other")))
    /\ UNCHANGED <<profiles, flags, cacheVars>>

(***************************************************************************)
(* manual_setup_auth_profile, verify_login_status, close_browser_session   *)
(***************************************************************************)
ManualWaitTime(t) == Min(t, 1800)

CallManual(p) ==
    \E s \in Sites, t \in Timeouts : StartSetup(p, "manual", s, t, FALSE)

\* the statement after the wait loop: remove the flag file if it exists
ManualCleanup(fl, s) == fl \ {s}
\* the finally clause: remove the flag file if it exists
ManualFinally(fl, s) == fl \ {s}

\* the flag file is written only after the login page has loaded
ManualLoginDone(p) ==
    /\ calls[p].op = "manual" /\ calls[p].pc = "login"
    /\ \E o \in NavOutcomes :
         IF o.k = "ok"
           THEN LET c == [calls[p] EXCEPT !.login = "ok", !.flag_made = TRUE, !.i = 0,
                                          !.close_seen = FALSE] IN
                  IF 0 < ManualWaitTime(c.timeout)
                    \* range(0, wait_time, 10) is not empty; the flag exists
                    THEN /\ flags' = flags \cup {c.site}
                         /\ Set(p, [c EXCEPT !.pc = "sleep", !.waited = TRUE])
                    \* no iteration: cleanup, then the final verification
                    ELSE /\ flags' = ManualCleanup(flags \cup {c.site}, c.site)
                         /\ Set(p, [c EXCEPT !.pc = "verify", !.elapsed = TRUE,
                                             !.tested = TRUE])
           ELSE /\ flags' = flags
                /\ Set(p, LoginFailure(calls[p], o))
    /\ UNCHANGED <<profiles, cacheVars>>

ManualSleepDone(p) ==
    /\ calls[p].op = "manual" /\ calls[p].pc = "sleep"
    /\ LET c == [calls[p] EXCEPT !.i = @ + 10] IN
         IF c.i < ManualWaitTime(c.timeout) /\ c.site \in flags
           THEN /\ Set(p, c)
                /\ flags' = flags
           \* the loop is exhausted, or the flag is gone (break)
           ELSE /\ Set(p, [c EXCEPT !.pc = "verify", !.tested = TRUE,
                                    !.elapsed = ~(c.i < ManualWaitTime(c.timeout)),
                                    !.close_seen = FALSE])
                /\ flags' = ManualCleanup(flags, c.site)
    /\ UNCHANGED <<profiles, cacheVars>>

\* the final verification: the analysis dict, a warning, or an exception
ManualVerifyResult(o, site_name) ==
    IF o.k = "ok" THEN _analyze_login_status(o.html, site_name)
    ELSE IF o.k = "fail" THEN Ret("warning", TRUE)
    ELSE Wrap("manual", "other")

ManualVerifyDone(p) ==
    /\ calls[p].op = "manual" /\ calls[p].pc = "verify"
    /\ \E o \in NavOutcomes :
         Set(p, Leave(calls[p], ManualVerifyResult(o, calls[p].site)))
    /\ flags' = ManualFinally(flags, calls[p].site)
    /\ UNCHANGED <<profiles, cacheVars>>

\* verify_login_status opens its own browser on the profile when the flag exists
VerifyNeedsFlagSkipped(fl, s) == TRUE
VerifyNeedsFlag(fl, s) == s \in fl

CallVerify(p) ==
    /\ calls[p].pc = "idle"
    /\ \E s \in Sites, disk \in SUBSET BrowserPaths :
         LET c == NewCall("verify", s, 0, FALSE) IN
           IF ~VerifyNeedsFlag(flags, s) THEN Set(p, Finish(c, Ret("error", FALSE)))
           ELSE IF ~_create_auth_browser_config(disk)
             THEN Set(p, Finish([c EXCEPT !.no_browser = TRUE],
                                Wrap("verify", "browser_not_found")))
           ELSE Set(p, [c EXCEPT !.pc = "launching", !.tested = TRUE])
    /\ UNCHANGED <<profiles, flags, cacheVars>>

VerifyFetchDone(p) ==
    /\ calls[p].op = "verify" /\ calls[p].pc = "fetch"
    /\ \E o \in NavOutcomes :
         Set(p, Leave(calls[p],
                      IF o.k = "ok" THEN _analyze_login_status(o.html, calls[p].site)
                      ELSE Ret("error", FALSE)))
    /\ UNCHANGED <<profiles, flags, cacheVars>>

\* close_browser_session has no await: it is one step
Signalled(c, s) ==
    IF c.op = "manual" /\ c.pc \in {"launching", "login", "sleep"} /\ c.site = s
      THEN [c EXCEPT !.close_seen = TRUE] ELSE c

CloseBrowserSession(p) ==
    /\ calls[p].pc = "idle"
    /\ \E s \in Sites :
         LET c == NewCall("close", s, 0, FALSE) IN
           IF s \in flags
             THEN /\ flags' = flags \ {s}
                  /\ calls' = [q \in DOMAIN calls |->
                                 IF q = p THEN Finish(c, Ret("success", FALSE))
                                 ELSE Signalled(calls[q], s)]
             ELSE /\ flags' = flags
                  /\ Set(p, Finish(c, Ret("warning", FALSE)))
    /\ UNCHANGED <<profiles, cacheVars>>

(***************************************************************************)
(* simple_setup_auth_profile (polling detection), check_interval = 10      *)
(***************************************************************************)
CallSimple(p) ==
    \E s \in Sites, t \in Timeouts : StartSetup(p, "simple", s, t, FALSE)

\* `while total_wait < setup_timeout and not login_detected`, entered with
\* login_detected = False: sleep again, or report the timeout
SimpleLoopRaises(c) ==
    IF c.i < c.timeout
      THEN [c EXCEPT !.pc = "sleep", !.waited = TRUE]
      ELSE Leave([c EXCEPT !.elapsed = TRUE], Wrap("simple", "timeout"))
SimpleLoop(c) ==
    IF c.i < c.timeout
      THEN [c EXCEPT !.pc = "sleep", !.waited = TRUE]
      ELSE Leave([c EXCEPT !.elapsed = TRUE], Ret("timeout", TRUE))

SimpleLoginDone(p) ==
    /\ calls[p].op = "simple" /\ calls[p].pc = "login"
    /\ \E o \in NavOutcomes :
         IF o.k = "ok"
           THEN Set(p, SimpleLoop([calls[p] EXCEPT !.login = "ok", !.i = 0]))
           ELSE Set(p, LoginFailure(calls[p], o))
    /\ UNCHANGED <<profiles, flags, cacheVars>>

SimpleSleepDone(p) ==
    /\ calls[p].op = "simple" /\ calls[p].pc = "sleep"
    /\ Set(p, [calls[p] EXCEPT !.i = @ + 10, !.pc = "poll", !.tested = TRUE])
    /\ UNCHANGED <<profiles, flags, cacheVars>>

SimpleDetects(o, site_name) ==
    /\ o.k = "ok"
    /\ _analyze_login_status(o.html, site_name).status \in {"success", "likely_logged_in"}

SimplePollDone(p) ==
    /\ calls[p].op = "simple" /\ calls[p].pc = "poll"
    /\ \E o \in NavOutcomes :
         IF SimpleDetects(o, calls[p].site)
           \* login_detected = True; fetch test_url once more to save the session
           THEN Set(p, [calls[p] EXCEPT !.pc = "save", !.detected = TRUE, !.tested = TRUE])
           \* not detected, failed fetch, or an exception (continue)
           ELSE Set(p, SimpleLoop(calls[p]))
    /\ UNCHANGED <<profiles, flags, cacheVars>>

\* the saving fetch sits inside the poll's try block: when it raises, the
\* handler continues the loop, which ends because login_detected is set, and
\* the timeout branch is skipped: the function ends without a return
SimpleSaveResult(o) == IF NavRaised(o) THEN RetNone ELSE Ret("success", TRUE)

SimpleSaveDone(p) ==
    /\ calls[p].op = "simple" /\ calls[p].pc = "save"
    /\ \E o \in NavOutcomes : Set(p, Leave(calls[p], SimpleSaveResult(o)))
    /\ UNCHANGED <<profiles, flags, cacheVars>>

(***************************************************************************)
(* interactive_setup_auth_profile, check_interval = 5                      *)
(***************************************************************************)
CallInteractive(p) ==
    \E s \in Sites, t \in Timeouts : StartSetup(p, "interactive", s, t, FALSE)

InteractiveLoop(c) ==
    IF c.i < c.timeout
      THEN [c EXCEPT !.pc = "sleep", !.waited = TRUE]
      ELSE [c EXCEPT !.pc = "final", !.elapsed = TRUE, !.tested = TRUE]

InteractiveLoginDone(p) ==
    /\ calls[p].op = "interactive" /\ calls[p].pc = "login"
    /\ \E o \in NavOutcomes :
         IF o.k = "ok"
           THEN Set(p, InteractiveLoop([calls[p] EXCEPT !.login = "ok", !.i = 0]))
           ELSE Set(p, LoginFailure(calls[p], o))
    /\ UNCHANGED <<profiles, flags, cacheVars>>

InteractiveSleepDone(p) ==
    /\ calls[p].op = "interactive" /\ calls[p].pc = "sleep"
    /\ Set(p, [calls[p] EXCEPT !.i = @ + 5, !.pc = "probe", !.tested = TRUE])
    /\ UNCHANGED <<profiles, flags, cacheVars>>

\* history: what the last probe of the wait loop gave
ProbeSeen(o) == IF o.k = "ok" /\ ConfirmMarker \in o.html THEN "ok_marker" ELSE o.k

\* the probe ends the loop: the confirmation marker is in the page, or the
\* exception says the browser is disconnected/closed
InteractiveBreaksOnAnyError(o) ==
    \/ o.k = "ok" /\ ConfirmMarker \in o.html
    \/ o.k \in {"closed", "error"}
InteractiveBreaks(o) ==
    \/ o.k = "ok" /\ ConfirmMarker \in o.html
    \/ o.k = "closed"

InteractiveProbeDone(p) ==
    /\ calls[p].op = "interactive" /\ calls[p].pc = "probe"
    /\ \E o \in NavOutcomes :
         IF InteractiveBreaks(o)
           THEN Set(p, [calls[p] EXCEPT !.pc = "final", !.detected = TRUE, !.tested = TRUE,
                                        !.probe = ProbeSeen(o)])
           ELSE Set(p, InteractiveLoop([calls[p] EXCEPT !.probe = ProbeSeen(o)]))
    /\ UNCHANGED <<profiles, flags, cacheVars>>

obvious_login_signs == <<"sign in", "log in", "login", "sign up">>

InteractiveFinalStatus(o) ==
    IF o.k = "ok"
      THEN (IF CountIn(obvious_login_signs, o.html) <= 2 THEN "success" ELSE "warning")
    ELSE IF o.k = "fail" THEN "warning"
    ELSE "completed"

InteractiveFinalDone(p) ==
    /\ calls[p].op = "interactive" /\ calls[p].pc = "final"
    /\ \E o \in NavOutcomes :
         Set(p, Leave(calls[p], Ret(InteractiveFinalStatus(o), TRUE)))
    /\ UNCHANGED <<profiles, flags, cacheVars>>

(***************************************************************************)
(* quick_setup_auth_profile (the second definition, which replaces the     *)
(* first), check_interval = 30                                             *)
(***************************************************************************)
CallQuick(p) ==
    \E s \in Sites, t \in Timeouts : StartSetup(p, "quick", s, t, FALSE)

QuickLoopAtTimeout(c) ==
    IF c.i <= c.timeout
      THEN [c EXCEPT !.pc = "sleep", !.waited = TRUE]
      ELSE [c EXCEPT !.pc = "final", !.elapsed = TRUE, !.tested = TRUE]
QuickLoop(c) ==
    IF c.i < c.timeout
      THEN [c EXCEPT !.pc = "sleep", !.waited = TRUE]
      ELSE [c EXCEPT !.pc = "final", !.elapsed = TRUE, !.tested = TRUE]

QuickLoginDone(p) ==
    /\ calls[p].op = "quick" /\ calls[p].pc = "login"
    /\ \E o \in NavOutcomes :
         IF o.k = "ok"
           THEN Set(p, QuickLoop([calls[p] EXCEPT !.login = "ok", !.i = 0]))
           ELSE Set(p, LoginFailure(calls[p], o))
    /\ UNCHANGED <<profiles, flags, cacheVars>>

\* elapsed_time += min(check_interval, remaining), then the keep-alive fetch
\* of login_url
QuickSleepDone(p) ==
    /\ calls[p].op = "quick" /\ calls[p].pc = "sleep"
    /\ Set(p, [calls[p] EXCEPT !.i = @ + Min(30, calls[p].timeout - @),
                               !.pc = "keepalive"])
    /\ UNCHANGED <<profiles, flags, cacheVars>>

\* whatever the keep-alive fetch gives, the loop goes on
QuickKeepaliveDone(p) ==
    /\ calls[p].op = "quick" /\ calls[p].pc = "keepalive"
    /\ \E o \in NavOutcomes : Set(p, QuickLoop(calls[p]))
    /\ UNCHANGED <<profiles, flags, cacheVars>>

QuickFinalStatus(o) ==
    IF o.k = "ok"
      THEN (IF CountIn(obvious_login_signs, o.html) <= 2 THEN "success" ELSE "warning")
    ELSE "completed"

QuickFinalDone(p) ==
    /\ calls[p].op = "quick" /\ calls[p].pc = "final"
    /\ \E o \in NavOutcomes :
         Set(p, Leave(calls[p], Ret(QuickFinalStatus(o), TRUE)))
    /\ UNCHANGED <<profiles, flags, cacheVars>>

(***************************************************************************)
(* simple_wait_setup_auth_profile (fixed wait)                             *)
(***************************************************************************)
CallSimpleWait(p) ==
    \E s \in Sites, t \in Timeouts : StartSetup(p, "simple_wait", s, t, FALSE)

\* i counts the 30-second sleeps done: range(wait_time // 30), then the
\* remainder wait_time % 30, then the saving fetch of test_url
SimpleWaitNextRefetches(c) ==
    IF c.i < c.timeout \div 30 THEN [c EXCEPT !.pc = "sleep", !.waited = TRUE]
    ELSE IF c.i > 0 THEN [c EXCEPT !.pc = "login"]
    ELSE IF c.timeout % 30 > 0 THEN [c EXCEPT !.pc = "last_sleep", !.waited = TRUE]
    ELSE [c EXCEPT !.pc = "save", !.elapsed = TRUE, !.tested = TRUE]
SimpleWaitNext(c) ==
    IF c.i < c.timeout \div 30 THEN [c EXCEPT !.pc = "sleep", !.waited = TRUE]
    ELSE IF c.timeout % 30 > 0 THEN [c EXCEPT !.pc = "last_sleep", !.waited = TRUE]
    ELSE [c EXCEPT !.pc = "save", !.elapsed = TRUE, !.tested = TRUE]

SimpleWaitLoginDone(p) ==
    /\ calls[p].op = "simple_wait" /\ calls[p].pc = "login"
    /\ \E o \in NavOutcomes :
         IF o.k = "ok"
           THEN Set(p, SimpleWaitNext([calls[p] EXCEPT !.login = "ok", !.i = 0]))
           ELSE Set(p, LoginFailure(calls[p], o))
    /\ UNCHANGED <<profiles, flags, cacheVars>>

SimpleWaitSleepDone(p) ==
    /\ calls[p].op = "simple_wait" /\ calls[p].pc = "sleep"
    /\ Set(p, SimpleWaitNext([calls[p] EXCEPT !.i = @ + 1]))
    /\ UNCHANGED <<profiles, flags, cacheVars>>

SimpleWaitLastSleepDone(p) ==
    /\ calls[p].op = "simple_wait" /\ calls[p].pc = "last_sleep"
    /\ Set(p, [calls[p] EXCEPT !.pc = "save", !.elapsed = TRUE, !.tested = TRUE])
    /\ UNCHANGED <<profiles, flags, cacheVars>>

SimpleWaitSaveStatus(o) == IF o.k = "fail" THEN "warning" ELSE "completed"

SimpleWaitSaveDone(p) ==
    /\ calls[p].op = "simple_wait" /\ calls[p].pc = "save"
    /\ \E o \in NavOutcomes :
         Set(p, Leave(calls[p], Ret(SimpleWaitSaveStatus(o), TRUE)))
    /\ UNCHANGED <<profiles, flags, cacheVars>>

(***************************************************************************)
(* crawl_with_auth, delete_auth_profile                                    *)
(***************************************************************************)
\* crawl_with_auth and crawl_markdown_with_auth
CrawlOps == {"crawl", "crawl_markdown"}

\* the profile directory is checked before the browser is resolved
ProfileMissingIgnored(s) == FALSE
ProfileMissing(s) == s \notin profiles

CallCrawl(p) ==
    /\ calls[p].pc = "idle"
    /\ \E op \in CrawlOps, s \in Sites, disk \in SUBSET BrowserPaths :
         LET c == NewCall(op, s, 0, FALSE) IN
           IF ProfileMissing(s) THEN Set(p, Finish(c, Raise("auth_required")))
           ELSE IF ~_create_auth_browser_config(disk)
             THEN Set(p, Finish([c EXCEPT !.no_browser = TRUE],
                                Wrap(op, "browser_not_found")))
           ELSE Set(p, [c EXCEPT !.pc = "launching"])
    /\ UNCHANGED <<profiles, flags, cacheVars>>

\* a result with success = False: its status code, and its html (None when
\* the engine gives no body)
NoHtml == {"<None>"}
CrawlFailures == [status_code : {401, 403, 500}, html : Pages \cup {NoHtml}]

\* the keywords each operation looks for in the body of a failed result
LoginKeywords(op) ==
    IF op = "crawl" THEN <<"login", "sign in", "signin">> ELSE <<"login", "sign in">>

CrawlFailure(op, f) ==
    IF f.status_code \in {401, 403} THEN Raise("auth_expired")
    \* result.html.lower() on None is an AttributeError
    ELSE IF f.html = NoHtml THEN Wrap(op, "other")
    ELSE IF AnyIn(LoginKeywords(op), f.html) THEN Raise("auth_expired")
    ELSE Raise("crawl_failed")

\* the data object each operation returns
CrawlDataOf(op) == IF op = "crawl" THEN "CrawlData" ELSE "MarkdownData"

CrawlFetchDone(p) ==
    /\ calls[p].op \in CrawlOps /\ calls[p].pc = "fetch"
    /\ \/ Set(p, Leave(calls[p], RetData(CrawlDataOf(calls[p].op))))
       \/ \E f \in CrawlFailures : Set(p, Leave(calls[p], CrawlFailure(calls[p].op, f)))
       \/ Set(p, Leave(calls[p], Wrap(calls[p].op, "other")))
    /\ UNCHANGED <<profiles, flags, cacheVars>>

\* delete_auth_profile has no await: it is one step
DeleteAuthProfileKeeps(p) ==
    /\ calls[p].pc = "idle"
    /\ \E s \in Sites :
         LET c == NewCall("delete", s, 0, FALSE) IN
           /\ profiles' = profiles
           /\ Set(p, Finish(c, RetData(IF s \in profiles THEN "True" ELSE "False")))
    /\ UNCHANGED <<flags, cacheVars>>
DeleteAuthProfile(p) ==
    /\ calls[p].pc = "idle"
    /\ \E s \in Sites :
         LET c == NewCall("delete", s, 0, FALSE) IN
           IF s \in profiles
             THEN /\ profiles' = profiles \ {s}
                  /\ Set(p, Finish(c, RetData("True")))
             ELSE /\ profiles' = profiles
                  /\ Set(p, Finish(c, RetData("False")))
    /\ UNCHANGED <<flags, cacheVars>>

(***************************************************************************)
(* The service: AuthCrawlerService() at import time, then requests.        *)
(***************************************************************************)
EmptyCache == [filled |-> FALSE, token_info |-> <<>>, timestamp |-> 0]
\* before: the TokenInfo the last store replaced, if any
NoStore == [done |-> FALSE, token_info |-> <<>>, at |-> 0, before |-> {}]
NoGet == [done |-> FALSE, value |-> {}]
NoInput == [op |-> "-"]
NoOutput == [op |-> "-"]

\* the profile directories are left from earlier runs of the service
Init ==
    /\ profiles \in SUBSET Sites
    /\ flags = {}
    /\ calls = [p \in Procs |-> IdleCall]
    /\ token_cache = EmptyCache
    /\ now = 0
    /\ stored = NoStore
    /\ got = NoGet
    /\ inp = NoInput
    /\ out = NoOutput

\* the operations that read or write the flag file or read the profile
\* directory, and the steps every browser session takes
FileStep(p) ==
    \/ CallManual(p) \/ ManualLoginDone(p) \/ ManualSleepDone(p) \/ ManualVerifyDone(p)
    \/ CallVerify(p) \/ VerifyFetchDone(p)
    \/ CloseBrowserSession(p)
    \/ CallCrawl(p) \/ CrawlFetchDone(p)
    \/ DeleteAuthProfile(p)
    \/ Launched(p) \/ Closed(p) \/ Reap(p)

\* the other setup strategies
StrategyStep(p) ==
    \/ CallSetup(p) \/ SetupLoginDone(p) \/ SetupVerifyDone(p)
    \/ CallDebug(p) \/ DebugLoginDone(p) \/ DebugSleepDone(p) \/ DebugVerifyDone(p)
    \/ DebugErrSleepDone(p)
    \/ CallSimple(p) \/ SimpleLoginDone(p) \/ SimpleSleepDone(p) \/ SimplePollDone(p)
    \/ SimpleSaveDone(p)
    \/ CallInteractive(p) \/ InteractiveLoginDone(p) \/ InteractiveSleepDone(p)
    \/ InteractiveProbeDone(p) \/ InteractiveFinalDone(p)
    \/ CallQuick(p) \/ QuickLoginDone(p) \/ QuickSleepDone(p) \/ QuickKeepaliveDone(p)
    \/ QuickFinalDone(p)
    \/ CallSimpleWait(p) \/ SimpleWaitLoginDone(p) \/ SimpleWaitSleepDone(p)
    \/ SimpleWaitLastSleepDone(p) \/ SimpleWaitSaveDone(p)

Next ==
    \/ \E p \in Procs : FileStep(p)
    \/ StrategyStep(MainCall)

Spec == Init /\ [][Next]_vars

\* the call waits in an await: the launch, a navigation, a sleep, the close
Awaited(p) == calls[p].pc \notin {"idle", "done"}

\* the await of call p returns (every navigation and every sleep returns)
Returns(p) == Awaited(p) /\ (FileStep(p) \/ StrategyStep(p))

\* one setup call at a time in the first slot, while the verify and close
\* requests that go with a manual session arrive in the other
NextTermination ==
    \/ FileStep(MainCall)
    \/ StrategyStep(MainCall)
    \/ \E p \in Procs \ {MainCall} :
          \/ CallVerify(p) \/ VerifyFetchDone(p) \/ Launched(p) \/ Closed(p)
          \/ CloseBrowserSession(p) \/ Reap(p)

SpecTermination ==
    Init /\ [][NextTermination]_vars /\ \A p \in Procs : WF_vars(Returns(p))

\* two manual sessions may overlap while close requests arrive in a slot of
\* their own
Closer == "c"

InitClose ==
    /\ profiles \in SUBSET Sites
    /\ flags = {}
    /\ calls = [p \in Procs \cup {Closer} |-> IdleCall]
    /\ token_cache = EmptyCache
    /\ now = 0
    /\ stored = NoStore
    /\ got = NoGet
    /\ inp = NoInput
    /\ out = NoOutput

NextClose ==
    \/ \E p \in Procs :
          \/ CallManual(p) \/ ManualLoginDone(p) \/ ManualSleepDone(p)
          \/ ManualVerifyDone(p)
          \/ Launched(p) \/ Closed(p) \/ Reap(p)
    \/ CloseBrowserSession(Closer)
    \/ Reap(Closer)

SpecClose == InitClose /\ [][NextClose]_vars

(***************************************************************************)
(* XiaohongshuPlatform: the token cache, under a simulated clock.          *)
(***************************************************************************)
\* self._cache_ttl
TTL == 300
MaxClock == TTL + MaxSlack

\* TokenInfo dicts
TokenInfos ==
    { ("xsec_token" :> "tok_a") @@ ("xsec_source" :> "pc_feed"),
      ("xsec_token" :> "tok_b") @@ ("xsec_source" :> "pc_search") @@ ("channel_id" :> "ch1") }

\* an Optional value: {} is None, {v} is v
None == {}
Some(v) == {v}

\* self._token_cache.get("timestamp", 0) and self._token_cache.get("token_info")
CacheTimestamp(cache) == IF cache.filled THEN cache.timestamp ELSE 0
CacheTokenInfo(cache) == IF cache.filled THEN Some(cache.token_info) ELSE None

\* the expiry test of _get_cached_token
FreshAtTTL(clock, cache_time) == clock - cache_time <= TTL
Fresh(clock, cache_time) == clock - cache_time < TTL

_get_cached_tokenIgnoresExpiry(cache, clock) == CacheTokenInfo(cache)
_get_cached_token(cache, clock) ==
    IF Fresh(clock, CacheTimestamp(cache)) THEN CacheTokenInfo(cache) ELSE None

\* the whole dict is replaced: the token and the time of this store
_cache_tokenAtEpoch(token_info, clock) ==
    [filled |-> TRUE, token_info |-> token_info, timestamp |-> 0]
_cache_token(token_info, clock) ==
    [filled |-> TRUE, token_info |-> token_info, timestamp |-> clock]

\* history of a store of token_info at the instant clock
Stored(token_info, clock) ==
    [done |-> TRUE, token_info |-> token_info, at |-> clock,
     before |-> IF stored.done THEN {stored.token_info} ELSE {}]

CacheToken ==
    /\ \E t \in TokenInfos :
         /\ token_cache' = _cache_token(t, now)
         /\ stored' = Stored(t, now)
    /\ got' = NoGet
    /\ UNCHANGED <<profiles, flags, calls, now, inp, out>>

GetCachedToken ==
    /\ got' = [done |-> TRUE, value |-> _get_cached_token(token_cache, now)]
    /\ UNCHANGED <<profiles, flags, calls, token_cache, now, stored, inp, out>>

\* time passes; the value a call returned belongs to the instant of the call
Tick ==
    /\ \E d \in {1, TTL - 1} :
         /\ now + d <= MaxClock
         /\ now' = now + d
    /\ got' = NoGet
    /\ UNCHANGED <<profiles, flags, calls, token_cache, stored, inp, out>>

NextCache == CacheToken \/ GetCachedToken \/ Tick

\* a platform object right after construction
InitCache == Init /\ profiles = {}

SpecCache == InitCache /\ [][NextCache]_vars

(***************************************************************************)
(* XiaohongshuPlatform: note URLs and their tokens.  A URL is its note id  *)
(* and its query string, a sequence of key=value pairs as they are written *)
(* in the URL (percent-encoded or raw).                                    *)
(***************************************************************************)
\* note ids as they occur in pages: 24 lower-case hex digits, 24 hex digits
\* with upper-case letters, 20 lower-case hex digits
NoteIds == {"682d7a17000000000f0338e2", "68301b2c000000000f03a1b4",
            "682D7A17000000000F0338E3", "682d7a17000000000f03"}

TokenKeys == {"xsec_token", "xsec_source", "channel_id", "note_type"}
\* token values: blank, one that urlencode has to escape, two plain ones
TokenValues == {"", "ABnu0gBG=", "pc_feed", "pc_search"}

\* quote_plus, as urlencode applies it to a value, and the unquoting of
\* parse_qs (a raw value that holds no escape is left as it is)
QuotePlus(v) == IF v = "ABnu0gBG=" THEN "ABnu0gBG%3D" ELSE v
Unquote(e) == IF e = "ABnu0gBG%3D" THEN "ABnu0gBG=" ELSE e

\* urlencode(params) of the dict built from the pairs, in insertion order
UrlEncode(pairs) == [k \in 1..Len(pairs) |-> [key |-> pairs[k].key, value |-> QuotePlus(pairs[k].value)]]

\* parse_qs(query): the keys that have a value which is not blank
\* (keep_blank_values is False), and for each key its first such value
QsKeys(query) == {query[k].key : k \in {j \in 1..Len(query) : query[j].value # ""}}
QsFirst(query, key) ==
    LET js == {j \in 1..Len(query) : query[j].key = key /\ query[j].value # ""}
        j1 == CHOOSE j \in js : \A j2 \in js : j <= j2
    IN  Unquote(query[j1].value)

\* _extract_token_from_url: None, or the dict with xsec_token, xsec_source
\* (pc_feed when the query has none) and channel_id when the query has one
_extract_token_from_urlUnchecked(url) ==
    LET q == url.query
        ks == QsKeys(q)
        token_info == [k \in ({"xsec_token", "channel_id"} \cap ks) \cup {"xsec_source"} |->
                          IF k \in ks THEN QsFirst(q, k) ELSE "pc_feed"]
    IN  {token_info}
_extract_token_from_url(url) ==
    LET q == url.query
        ks == QsKeys(q)
        token_info == [k \in ({"xsec_token", "channel_id"} \cap ks) \cup {"xsec_source"} |->
                          IF k \in ks THEN QsFirst(q, k) ELSE "pc_feed"]
    IN  IF "xsec_token" \in DOMAIN token_info THEN {token_info} ELSE {}

\* the params dict of _build_note_url_with_token, as a sequence of pairs
BuildParams(token_info) ==
    (IF "xsec_token" \in DOMAIN token_info
       THEN <<[key |-> "xsec_token", value |-> token_info["xsec_token"]]>> ELSE <<>>)
    \o <<[key |-> "xsec_source",
          value |-> IF "xsec_source" \in DOMAIN token_info
                      THEN token_info["xsec_source"] ELSE "pc_feed"]>>
    \o (IF "channel_id" \in DOMAIN token_info
          THEN <<[key |-> "channel_id", value |-> token_info["channel_id"]]>> ELSE <<>>)

_build_note_url_with_token(note_id, token_info) ==
    [note_id |-> note_id, query |-> UrlEncode(BuildParams(token_info))]

\* the TokenInfo dicts that hold at least xsec_token
TokenDicts ==
    UNION { [ks \cup {"xsec_token"} -> TokenValues] : ks \in SUBSET TokenKeys }

\* _extract_token_from_url(_build_note_url_with_token(note_id, token_info))
RoundTripInputs == [op : {"round_trip"}, note_id : NoteIds, token_info : TokenDicts]

RoundTrip ==
    /\ inp.op = "round_trip" /\ out = NoOutput
    /\ out' = [op |-> "round_trip",
               url |-> _build_note_url_with_token(inp.note_id, inp.token_info),
               token_info |-> _extract_token_from_url(
                                  _build_note_url_with_token(inp.note_id, inp.token_info))]
    /\ UNCHANGED <<profiles, flags, calls, token_cache, now, stored, got, inp>>


(***************************************************************************)
(* XiaohongshuPlatform: link extraction.  A page is modelled by whether    *)
(* its text has at least 1000 characters and by the note links that occur  *)
(* in it, in text order.  base_url is on www.xiaohongshu.com, so a         *)
(* relative link joined with it is the absolute link.                      *)
(***************************************************************************)
\* the most links in a page, and the largest max_links
MaxPageLinks == 2

\* len(note_id), for the ids of the model and the prefixes the id pattern cuts
IdLen(id) ==
    IF id = "682d7a17000000000f03" THEN 20
    ELSE IF id = "682" THEN 3
    ELSE 24

\* the longest prefix of the id made of the characters a-f0-9
LowerHexPrefix(id) == IF id = "682D7A17000000000F0338E3" THEN "682" ELSE id

\* parse_content_id_from_url: re.search(r'/explore/([a-f0-9]+)', url), which
\* is case-sensitive
parse_content_id_from_url(url) == {LowerHexPrefix(url.note_id)}

TokPair == [key |-> "xsec_token", value |-> "ABnu0gBG="]
SrcPair == [key |-> "xsec_source", value |-> "pc_feed"]
BlankSrcPair == [key |-> "xsec_source", value |-> ""]
ChannelPair == [key |-> "channel_id", value |-> "pc_search"]

\* how a link is written in the text: [](url), href="url", href="/explore/..",
\* "url", "/explore/..", or the bare url
LinkForms == {"md", "href", "href_rel", "quoted", "quoted_rel", "bare"}

\* the link occurrences pages are made of
LinkPool ==
    { [form |-> "md", note_id |-> "682d7a17000000000f0338e2", query |-> <<TokPair, SrcPair>>],
      [form |-> "href", note_id |-> "68301b2c000000000f03a1b4", query |-> <<TokPair>>],
      [form |-> "href_rel", note_id |-> "682d7a17000000000f0338e2", query |-> <<TokPair, BlankSrcPair>>],
      [form |-> "quoted", note_id |-> "682D7A17000000000F0338E3", query |-> <<TokPair, SrcPair>>],
      [form |-> "bare", note_id |-> "68301b2c000000000f03a1b4", query |-> <<TokPair, SrcPair>>],
      [form |-> "md", note_id |-> "682d7a17000000000f03", query |-> <<TokPair, SrcPair>>],
      [form |-> "md", note_id |-> "68301b2c000000000f03a1b4", query |-> <<>>],
      [form |-> "href", note_id |-> "682d7a17000000000f0338e2", query |-> <<SrcPair>>],
      [form |-> "quoted_rel", note_id |-> "68301b2c000000000f03a1b4",
       query |-> <<SrcPair, TokPair, ChannelPair>>] }

\* the sequences without repetition of at most n elements of the set S
SeqsNoRep(S, n) ==
    UNION { {f \in [1..k -> S] : \A a, b \in 1..k : a # b => f[a] # f[b]} : k \in 0..n }

LinkPages == [long : BOOLEAN, links : SeqsNoRep(LinkPool, MaxPageLinks)]

Url(l) == [note_id |-> l.note_id, query |-> l.query]

\* a primary pattern matches the occurrence: a wrapped link whose id is 24 hex
\* digits of either case (re.IGNORECASE) followed by `?`
PrimaryMatches(l) ==
    /\ l.form # "bare"
    /\ IdLen(l.note_id) = 24
    /\ l.query # <<>>

\* all_matches: the set of the full URLs of the matched occurrences
AllMatches(html) ==
    {Url(html.links[k]) : k \in {j \in 1..Len(html.links) : PrimaryMatches(html.links[j])}}

\* list(all_matches): a set is iterated in an order the hash seed decides
Orders(S) ==
    {f \in [1..Cardinality(S) -> S] : \A a, b \in 1..Cardinality(S) : a # b => f[a] # f[b]}

Prefix(seq, n) == SubSeq(seq, 1, IF n < Len(seq) THEN n ELSE Len(seq))

\* note_info of a URL found by a primary pattern
NoteInfo(full_url, note_id) ==
    [note_id |-> note_id, url |-> full_url,
     complete_params |-> /\ "xsec_token" \in QsKeys(full_url.query)
                         /\ "xsec_source" \in QsKeys(full_url.query)]

\* note_info of an id found by the fallback patterns
FallbackNoteInfo(note_id) ==
    [note_id |-> note_id, url |-> [note_id |-> note_id, query |-> <<>>],
     complete_params |-> FALSE]


\* re.findall of the three fallback patterns, one after the other, over the
\* text: `explore/([a-f0-9]{20,})`, `/explore/([a-f0-9]+)\?` and
\* `xiaohongshu\.com/explore/([a-f0-9]+)`, all with re.IGNORECASE
FallbackPatternMatches(l, pattern) ==
    CASE pattern = 1 -> IdLen(l.note_id) >= 20
      [] pattern = 2 -> l.query # <<>>
      [] pattern = 3 -> l.form \in {"md", "href", "quoted", "bare"}

RECURSIVE FindAll(_, _)
FindAll(links, pattern) ==
    IF links = <<>> THEN <<>>
    ELSE (IF FallbackPatternMatches(Head(links), pattern)
            THEN <<Head(links).note_id>> ELSE <<>>)
         \o FindAll(Tail(links), pattern)

\* the loop over the matches: an id of at least 20 characters that was not
\* found before is appended
RECURSIVE FallbackNotes(_, _)
FallbackNotes(ids, found_ids) ==
    IF ids = <<>> THEN <<>>
    ELSE IF IdLen(Head(ids)) >= 20 /\ Head(ids) \notin found_ids
      THEN <<FallbackNoteInfo(Head(ids))>>
           \o FallbackNotes(Tail(ids), found_ids \cup {Head(ids)})
      ELSE FallbackNotes(Tail(ids), found_ids)

\* the `break` at max_links notes leaves only the inner loop, and the result
\* is cut to notes[:max_links]: the notes dropped by either are the same
_fallback_extract_links(html, max_links) ==
    Prefix(FallbackNotes(FindAll(html.links, 1) \o FindAll(html.links, 2)
                         \o FindAll(html.links, 3), {}),
           max_links)

\* the loop over list(all_matches)[:max_links]: a URL is kept when its parsed
\* id has at least 20 characters
RECURSIVE PrimaryNotes(_)
PrimaryNotes(urls) ==
    IF urls = <<>> THEN <<>>
    ELSE LET ids == parse_content_id_from_url(Head(urls))
             note_id == CHOOSE id \in ids : TRUE
         IN  (IF ids # {} /\ IdLen(note_id) >= 20
                THEN <<NoteInfo(Head(urls), note_id)>> ELSE <<>>)
             \o PrimaryNotes(Tail(urls))

IsComplete(note) == note.complete_params
IsIncomplete(note) == ~note.complete_params

\* notes.sort(key=complete_params, reverse=True): a stable sort
SortCompleteFirstSkipped(notes) == notes
SortCompleteFirst(notes) == SelectSeq(notes, IsComplete) \o SelectSeq(notes, IsIncomplete)

\* `if not html or len(html) < 1000`
TooShortNever(html) == FALSE
TooShort(html) == ~html.long

\* `if len(all_matches) == 0`
NoPrimaryMatchOrOne(all_matches) == Cardinality(all_matches) <= 1
NoPrimaryMatch(all_matches) == Cardinality(all_matches) = 0

\* _extract_xiaohongshu_notes_from_html; order is list(all_matches).  The
\* result tells, besides the notes, which strategies were run.
_extract_xiaohongshu_notes_from_html(html, max_links, order) ==
    IF TooShort(html)
      THEN [notes |-> <<>>, primary |-> FALSE, fallback |-> FALSE]
    ELSE IF NoPrimaryMatch(AllMatches(html))
      THEN [notes |-> _fallback_extract_links(html, max_links),
            primary |-> TRUE, fallback |-> TRUE]
    ELSE [notes |-> SortCompleteFirst(PrimaryNotes(Prefix(order, max_links))),
          primary |-> TRUE, fallback |-> FALSE]

ExtractInputs == [op : {"extract"}, html : LinkPages, max_links : 1..MaxPageLinks]

ExtractNotes ==
    /\ inp.op = "extract" /\ out = NoOutput
    /\ \E order \in Orders(AllMatches(inp.html)) :
         LET r == _extract_xiaohongshu_notes_from_html(inp.html, inp.max_links, order) IN
           out' = [op |-> "extract", notes |-> r.notes,
                   primary |-> r.primary, fallback |-> r.fallback]
    /\ UNCHANGED <<profiles, flags, calls, token_cache, now, stored, got, inp>>

(***************************************************************************)
(* XiaohongshuPlatform: crawl_content_by_id and the access URL of a note.  *)
(* One call is in flight at a time; inp is the call and where it waits,    *)
(* out is what the last call got from _get_note_access_url and returned.   *)
(***************************************************************************)
\* max_links of the extract_content_links call in _get_note_access_url
ExploreMaxLinks == 50

\* links_data["notes"] of a successful extract_content_links call
ExploreNotes ==
    UNION { { _extract_xiaohongshu_notes_from_html(html, ExploreMaxLinks, order).notes :
                order \in Orders(AllMatches(html)) } : html \in LinkPages }

\* the URLs notes carry
NoteUrls == {Url(l) : l \in LinkPool} \cup {FallbackNoteInfo(id).url : id \in NoteIds}

\* the indexes of the notes that have the id, in list order
TargetIndexes(links, note_id) == {k \in 1..Len(links) : links[k].note_id = note_id}

\* what _get_note_access_url does with links_data["notes"]: the new cache and
\* the URL it returns (url is None or the URL; built tells that the URL was
\* made by _build_note_url_with_token, from token_info)
AccessFromNotesAnyToken(notes, note_id, cache, clock) ==
    LET complete_links == SelectSeq(notes, IsComplete)
        target_links == IF complete_links # <<>> THEN complete_links ELSE notes
        hits == TargetIndexes(target_links, note_id)
        hit == target_links[CHOOSE k \in hits : \A k2 \in hits : k <= k2]
        tokened == {k \in 1..Len(target_links) :
                      _extract_token_from_url(target_links[k].url) # None}
        first == _extract_token_from_url(
                     target_links[CHOOSE k \in tokened : \A k2 \in tokened : k <= k2].url)
        token_info == CHOOSE t \in first : TRUE
    IN  IF hits # {}
          THEN [cache |-> IF _extract_token_from_url(hit.url) # None
                            THEN _cache_token(CHOOSE t \in _extract_token_from_url(hit.url) : TRUE,
                                              clock)
                            ELSE cache,
                url |-> Some(hit.url), built |-> FALSE, token_info |-> None,
                via |-> "target"]
        ELSE IF tokened # {}
          THEN [cache |-> _cache_token(token_info, clock),
                url |-> Some(_build_note_url_with_token(note_id, token_info)),
                built |-> TRUE, token_info |-> Some(token_info), via |-> "first"]
        ELSE [cache |-> cache, url |-> None, built |-> FALSE, token_info |-> None,
              via |-> "none"]
AccessFromNotes(notes, note_id, cache, clock) ==
    LET complete_links == SelectSeq(notes, IsComplete)
        target_links == IF complete_links # <<>> THEN complete_links ELSE notes
        hits == TargetIndexes(target_links, note_id)
        hit == target_links[CHOOSE k \in hits : \A k2 \in hits : k <= k2]
        first == _extract_token_from_url(target_links[1].url)
        token_info == CHOOSE t \in first : TRUE
    IN  IF hits # {}
          THEN [cache |-> IF _extract_token_from_url(hit.url) # None
                            THEN _cache_token(CHOOSE t \in _extract_token_from_url(hit.url) : TRUE,
                                              clock)
                            ELSE cache,
                url |-> Some(hit.url), built |-> FALSE, token_info |-> None,
                via |-> "target"]
        ELSE IF target_links # <<>> /\ first # None
          THEN [cache |-> _cache_token(token_info, clock),
                url |-> Some(_build_note_url_with_token(note_id, token_info)),
                built |-> TRUE, token_info |-> Some(token_info), via |-> "first"]
        ELSE [cache |-> cache, url |-> None, built |-> FALSE, token_info |-> None,
              via |-> "none"]

\* history of the call: how the explore page answered (explored is "-" when
\* it was not fetched, "links" or "raised") and the notes it gave
Unexplored == [explored |-> "-", notes |-> <<>>]

AccessOutput(a, res, note_id, e) ==
    [op |-> "access", url |-> a.url, built |-> a.built, token_info |-> a.token_info,
     via |-> a.via, res |-> res, note_id |-> note_id, explored |-> e.explored,
     notes |-> e.notes]

\* crawl_content_by_id(content_id) up to its first await: a cached token that
\* has not expired gives the URL, otherwise the explore page is fetched
CallCrawlContent ==
    /\ inp = NoInput
    /\ \E note_id \in NoteIds :
         LET cached_token == _get_cached_token(token_cache, now) IN
           IF cached_token # None
             THEN /\ inp' = [op |-> "access", note_id |-> note_id, pc |-> "crawl"]
                  /\ out' = AccessOutput(
                              [url |-> Some(_build_note_url_with_token(
                                                note_id, CHOOSE t \in cached_token : TRUE)),
                               built |-> TRUE, token_info |-> cached_token,
                               via |-> "cache"], "-", note_id, Unexplored)
             ELSE /\ inp' = [op |-> "access", note_id |-> note_id, pc |-> "links"]
                  /\ out' = NoOutput
    /\ UNCHANGED <<profiles, flags, calls, token_cache, now, stored, got>>

\* extract_content_links returns its notes, or raises (the exception is
\* caught in _get_note_access_url); without a URL the call raises
\* link_not_found
ExploreLinksDone ==
    /\ inp.op = "access" /\ inp.pc = "links"
    /\ \/ \E notes \in ExploreNotes :
            LET a == AccessFromNotes(notes, inp.note_id, token_cache, now)
                e == [explored |-> "links", notes |-> notes]
            IN
              /\ token_cache' = a.cache
              /\ IF a.url = None
                   THEN /\ inp' = NoInput
                        /\ out' = AccessOutput(a, "link_not_found", inp.note_id, e)
                   ELSE /\ inp' = [inp EXCEPT !.pc = "crawl"]
                        /\ out' = AccessOutput(a, "-", inp.note_id, e)
       \/ /\ token_cache' = token_cache
          /\ inp' = NoInput
          /\ out' = AccessOutput([url |-> None, built |-> FALSE, token_info |-> None,
                                  via |-> "none"], "link_not_found", inp.note_id,
                                 [explored |-> "raised", notes |-> <<>>])
    /\ UNCHANGED <<profiles, flags, calls, now, stored, got>>

\* the note page was fetched, or the fetch failed
NoteCrawlDone ==
    /\ inp.op = "access" /\ inp.pc = "crawl"
    /\ inp' = NoInput
    /\ \E res \in {"note_data", "crawl_failed"} : out' = [out EXCEPT !.res = res]
    /\ UNCHANGED <<profiles, flags, calls, token_cache, now, stored, got>>

\* _cache_token_from_url(url)
CacheTokenFromUrl ==
    /\ \E url \in NoteUrls :
         LET token_info == _extract_token_from_url(url) IN
           token_cache' = IF token_info # None
                            THEN _cache_token(CHOOSE t \in token_info : TRUE, now)
                            ELSE token_cache
    /\ UNCHANGED <<profiles, flags, calls, now, stored, got, inp, out>>

\* time passes between the steps: just under a TTL, or a whole TTL
Elapse ==
    /\ \E d \in {TTL - 1, TTL} :
         /\ now + d <= TTL + MaxClock
         /\ now' = now + d
    /\ UNCHANGED <<profiles, flags, calls, token_cache, stored, got, inp, out>>

NextAccess ==
    CallCrawlContent \/ ExploreLinksDone \/ NoteCrawlDone \/ CacheTokenFromUrl \/ Elapse

SpecAccess == InitCache /\ [][NextAccess]_vars

(***************************************************************************)
(* Overlapping crawl_content_by_id calls on the one XiaohongshuPlatform of *)
(* SUPPORTED_PLATFORMS.  The calls run on one event loop and switch at     *)
(* their awaits only: a step is the code of one call between two awaits.   *)
(* stored is the last store into the cache, got the last read of it.       *)
(***************************************************************************)
ContentCall(note_id, pc, url) ==
    [op |-> "content", note_id |-> note_id, pc |-> pc, url |-> url]

\* the head of the call: _get_cached_token, then either the note fetch with
\* the URL of the cached token or the fetch of the explore page
CallContentById(p) ==
    /\ calls[p].pc = "idle"
    /\ \E note_id \in NoteIds :
         LET cached_token == _get_cached_token(token_cache, now) IN
           /\ got' = [done |-> TRUE, value |-> cached_token]
           /\ IF cached_token # None
                THEN Set(p, ContentCall(note_id, "crawl",
                                        Some(_build_note_url_with_token(
                                                 note_id, CHOOSE t \in cached_token : TRUE))))
                ELSE Set(p, ContentCall(note_id, "links", None))
    /\ UNCHANGED <<profiles, flags, token_cache, now, stored, inp, out>>

\* extract_content_links has returned or raised: the rest of
\* _get_note_access_url, with its store into the cache, up to the next await
ContentLinksDoneTorn(p) ==
    /\ calls[p].op = "content" /\ calls[p].pc = "links"
    /\ \/ \E notes \in ExploreNotes :
            LET a == AccessFromNotes(notes, calls[p].note_id, token_cache, now) IN
              /\ token_cache' = [a.cache EXCEPT !.timestamp = CacheTimestamp(token_cache)]
              /\ stored' = IF a.cache = token_cache THEN stored
                           ELSE Stored(a.cache.token_info, now)
              /\ got' = IF a.cache = token_cache THEN got ELSE NoGet
              /\ IF a.url = None
                   THEN Set(p, [calls[p] EXCEPT !.pc = "done"])
                   ELSE Set(p, [calls[p] EXCEPT !.pc = "crawl", !.url = a.url])
       \/ /\ token_cache' = token_cache
          /\ stored' = stored
          /\ got' = got
          /\ Set(p, [calls[p] EXCEPT !.pc = "done"])
    /\ UNCHANGED <<profiles, flags, now, inp, out>>
ContentLinksDone(p) ==
    /\ calls[p].op = "content" /\ calls[p].pc = "links"
    /\ \/ \E notes \in ExploreNotes :
            LET a == AccessFromNotes(notes, calls[p].note_id, token_cache, now) IN
              /\ token_cache' = a.cache
              /\ stored' = IF a.cache = token_cache THEN stored
                           ELSE Stored(a.cache.token_info, now)
              \* the value a call read belongs to the slot as it was then
              /\ got' = IF a.cache = token_cache THEN got ELSE NoGet
              /\ IF a.url = None
                   THEN Set(p, [calls[p] EXCEPT !.pc = "done"])
                   ELSE Set(p, [calls[p] EXCEPT !.pc = "crawl", !.url = a.url])
       \/ /\ token_cache' = token_cache
          /\ stored' = stored
          /\ got' = got
          /\ Set(p, [calls[p] EXCEPT !.pc = "done"])
    /\ UNCHANGED <<profiles, flags, now, inp, out>>

\* the note page was fetched, or the fetch failed
ContentFetchDone(p) ==
    /\ calls[p].op = "content" /\ calls[p].pc = "crawl"
    /\ Set(p, [calls[p] EXCEPT !.pc = "done"])
    /\ UNCHANGED <<profiles, flags, cacheVars>>

NextShared ==
    \/ \E p \in Procs : \/ CallContentById(p)
                        \/ ContentLinksDone(p)
                        \/ ContentFetchDone(p)
                        \/ Reap(p)
    \/ Elapse

SpecShared == InitCache /\ [][NextShared]_vars

(***************************************************************************)
(* AuthCrawlerService.get_profile_path.  A path is the sequence of its     *)
(* segments: the string "a/../b" is <<"a", "..", "b">>, "" is <<"">>, and a *)
(* string that starts with "/" has "" as its first segment.                *)
(***************************************************************************)
MaxSegments == 2

Segments == {"", ".", "..", "medium_com", "example_com"}

\* site_name: any string; those that start with "//" are left out
SiteNames ==
    { s \in UNION { [1..n -> Segments] : n \in 1..MaxSegments } :
        ~(Len(s) >= 2 /\ s[1] = "" /\ s[2] = "") }

\* the working directory of the service, and self.auth_profiles_dir under it
Cwd == <<"srv", "crawl-api">>
auth_profiles_dir == Cwd \o <<"auth_profiles">>

\* a string that starts with "/" is an absolute path
IsAbsolute(s) == Len(s) >= 2 /\ s[1] = ""

\* Path.resolve() on an absolute path without symbolic links: empty and "."
\* segments are dropped, ".." drops the segment before it (none at the root)
RECURSIVE Resolve(_, _)
Resolve(stack, rest) ==
    IF rest = <<>> THEN stack
    ELSE LET seg == Head(rest) IN
         Resolve(IF seg \in {"", "."} THEN stack
                 ELSE IF seg = ".."
                        THEN (IF stack = <<>> THEN stack
                              ELSE SubSeq(stack, 1, Len(stack) - 1))
                        ELSE Append(stack, seg),
                 Tail(rest))

\* self.auth_profiles_dir / site_name: an absolute site_name replaces the base
get_profile_path(site_name) ==
    IF IsAbsolute(site_name) THEN Resolve(<<>>, site_name)
    ELSE Resolve(auth_profiles_dir, site_name)

ProfilePathInputs == [op : {"profile_path"}, s1 : SiteNames, s2 : SiteNames]

ProfilePaths ==
    /\ inp.op = "profile_path" /\ out = NoOutput
    /\ out' = [op |-> "profile_path", p1 |-> get_profile_path(inp.s1),
               p2 |-> get_profile_path(inp.s2)]
    /\ UNCHANGED <<profiles, flags, calls, token_cache, now, stored, got, inp>>

(***************************************************************************)
(* _analyze_login_status as a function of the page and the site.           *)
(***************************************************************************)
\* the most phrases in an analysed page
MaxPhrases == 3

PhrasePool == {"logout", "account", "dashboard", "my account", "welcome", "stories",
               "watchlist", "sign in", "login", "sign up", "subscribe"}

AnalyzedPages == {html \in SUBSET PhrasePool : Cardinality(html) <= MaxPhrases}

AnalyzedSites == {"medium_com", "investors_com", "example_com"}

\* the confidence each branch returns with its status
Confidence(status) ==
    CASE status = "success" -> "high"
      [] status = "likely_logged_in" -> "medium"
      [] status = "not_logged_in" -> "high"
      [] status = "uncertain" -> "low"
      [] OTHER -> "none"

AnalyzeInputs == [op : {"analyze"}, html : AnalyzedPages, site_name : AnalyzedSites]

AnalyzeLoginStatus ==
    /\ inp.op = "analyze" /\ out = NoOutput
    /\ LET r == _analyze_login_status(inp.html, inp.site_name) IN
         out' = [op |-> "analyze", status |-> r.status, confidence |-> Confidence(r.status)]
    /\ UNCHANGED <<profiles, flags, calls, token_cache, now, stored, got, inp>>


(***************************************************************************)
(* crawl_with_auth: what the call makes of the result of its fetch.        *)
(***************************************************************************)
\* the results of crawler.arun: a successful one, or a failed one with the
\* status code of the response
CrawlResults ==
    [success : {TRUE}, status_code : {200}, html : Pages \cup {NoHtml}]
    \cup [success : {FALSE}, status_code : {401, 403, 500}, html : Pages \cup {NoHtml}]

\* `if not result.success:` guards the test for an expired login
CrawlResponse(op, result) ==
    IF ~result.success THEN CrawlFailure(op, result)
    ELSE RetData(CrawlDataOf(op))

CrawlResponseInputs == [op : {"crawl_response"}, result : CrawlResults]

CrawlWithAuthResponse ==
    /\ inp.op = "crawl_response" /\ out = NoOutput
    /\ out' = [op |-> "crawl_response", res |-> CrawlResponse("crawl", inp.result)]
    /\ UNCHANGED <<profiles, flags, calls, token_cache, now, stored, got, inp>>


(***************************************************************************)
(* Browser resolution in detail: AuthCrawlerService._get_browser_executable_path *)
(* and BrowserPathManager.  The environment of a call is the value of      *)
(* CHROMIUM_EXECUTABLE_PATH, the content of ./browser_config.txt, the path  *)
(* auto-detection finds, and the paths that exist on disk.                 *)
(***************************************************************************)
ChromePaths == {"/opt/a/chrome", "/opt/b/chrome"}
Unset == "<unset>"
NoFile == "<no file>"
UserReportedPath == "/Users/M16/chromium-1169/Chromium"

\* env: os.environ.get('CHROMIUM_EXECUTABLE_PATH'); file: the stripped text of
\* browser_config.txt; auto: what _auto_detect_chromium returns, a path that
\* exists; exists: the paths os.path.exists accepts; writable: open(.., 'w')
\* on browser_config.txt succeeds
BrowserEnvs ==
    { e \in [env : ChromePaths \cup {Unset, ""},
             file : ChromePaths \cup {NoFile, ""},
             auto : ChromePaths \cup {Unset},
             exists : SUBSET (ChromePaths \cup {UserReportedPath}),
             writable : BOOLEAN] :
        e.auto # Unset => e.auto \in e.exists }

\* `env_path and os.path.exists(env_path)`
EnvValid(e) == e.env \notin {Unset, ""} /\ e.env \in e.exists
\* the file exists, has text, and the text is a path that exists
FileValid(e) == e.file \notin {NoFile, ""} /\ e.file \in e.exists

\* the candidates of _get_browser_executable_path that pass their test
CandidatesOnDisk(e) ==
    (IF EnvValid(e) THEN {"env_path"} ELSE {})
    \cup (IF FileValid(e) THEN {"cfg_path"} ELSE {})
    \cup (IF e.auto # Unset THEN {"auto_path"} ELSE {})
    \cup (IF UserReportedPath \in e.exists THEN {"fallback_path"} ELSE {})

\* the path behind each candidate
CandidatePath(e, kind) ==
    CASE kind = "env_path" -> e.env
      [] kind = "cfg_path" -> e.file
      [] kind = "auto_path" -> e.auto
      [] kind = "fallback_path" -> UserReportedPath
      [] OTHER -> "none"

\* AuthCrawlerService._get_browser_executable_path, with the path it returns
ServiceBrowserPath(e) ==
    CandidatePath(e, _get_browser_executable_path(CandidatesOnDisk(e)))

\* browser_config.py imports os and Optional only: the name Path is not
\* defined in the module, and evaluating Path(...) raises NameError
PathImported == FALSE
NameError == "NameError"

\* BrowserPathManager._get_custom_path: the Path(...) call is outside its try
_get_custom_path(e) ==
    IF ~PathImported THEN NameError
    ELSE IF FileValid(e) THEN e.file
    ELSE "none"

\* BrowserPathManager.get_chromium_path
get_chromium_path(e) ==
    IF EnvValid(e) THEN e.env
    ELSE LET custom_path == _get_custom_path(e) IN
         IF custom_path = NameError THEN NameError
         ELSE IF custom_path # "none" /\ custom_path \in e.exists THEN custom_path
         ELSE IF e.auto # Unset THEN e.auto
         ELSE "none"

\* BrowserPathManager.set_custom_path(path): what it returns and the text of
\* browser_config.txt after it
set_custom_path(e, path) ==
    IF path \notin e.exists THEN [ret |-> "False", file |-> e.file]
    ELSE IF ~PathImported THEN [ret |-> NameError, file |-> e.file]
    ELSE IF e.writable THEN [ret |-> "True", file |-> path]
    ELSE [ret |-> "False", file |-> e.file]

ResolveInputs == [op : {"resolve"}, e : BrowserEnvs]

\* one resolution by the service and one by BrowserPathManager
ResolveBrowserPath ==
    /\ inp.op = "resolve" /\ out = NoOutput
    /\ out' = [op |-> "resolve", service |-> ServiceBrowserPath(inp.e),
               manager |-> get_chromium_path(inp.e)]
    /\ UNCHANGED <<profiles, flags, calls, token_cache, now, stored, got, inp>>


SetPathInputs == [op : {"set_path"}, e : BrowserEnvs, path : ChromePaths]

\* set_custom_path(path), then get_chromium_path() in the same environment
\* with the file as the first call left it
SetCustomPath ==
    /\ inp.op = "set_path" /\ out = NoOutput
    /\ LET r == set_custom_path(inp.e, inp.path) IN
         out' = [op |-> "set_path", ret |-> r.ret, file |-> r.file,
                 get |-> get_chromium_path([inp.e EXCEPT !.file = r.file])]
    /\ UNCHANGED <<profiles, flags, calls, token_cache, now, stored, got, inp>>


(***************************************************************************)
(* The routers: what an endpoint answers for each outcome of its service   *)
(* call.  An answer is the ApiResponse returned, or an exception that      *)
(* leaves the endpoint.                                                    *)
(***************************************************************************)
\* BusinessCode
SUCCESS == 200
INVALID_PARAMS == 400
INVALID_URL == 40001
INTERNAL_ERROR == 500
CRAWL_TIMEOUT == 50001
CRAWL_FAILED == 50002

\* ApiResponse.success_response and ApiResponse.error_response
success_response == [kind |-> "ApiResponse", code |-> SUCCESS, success |-> TRUE]
error_response(code) == [kind |-> "ApiResponse", code |-> code, success |-> FALSE]
\* an exception no handler of the endpoint catches
Propagates == [kind |-> "exception", code |-> 0, success |-> FALSE]

\* the endpoints, by the handlers their try block has
MappedSetupEndpoints ==
    {"setup_auth_profile", "manual_setup_auth_profile", "simple_setup_auth_profile",
     "quick_setup_auth_profile", "interactive_setup_auth_profile",
     "simple_wait_setup_auth_profile"}
SetupEndpoints == MappedSetupEndpoints \cup {"debug_setup_auth_profile"}
CrawlEndpoints == {"crawl_with_auth", "crawl_markdown_with_auth"}
PlatformEndpoints == {"extract_platform_content_links", "crawl_platform_content"}
\* endpoints whose only handler is `except Exception`
PlainEndpoints ==
    {"list_auth_profiles", "delete_auth_profile", "auth_health_check",
     "verify_login_status", "close_browser_session", "get_browser_status",
     "list_platforms", "xiaohongshu_health_check"}
Endpoints == SetupEndpoints \cup CrawlEndpoints \cup PlatformEndpoints \cup PlainEndpoints

\* error_code_map of the endpoint; the empty map where the handler answers
\* CRAWL_FAILED whatever the error_type
error_code_map(endpoint) ==
    IF endpoint \in MappedSetupEndpoints
      THEN ("setup_failed" :> CRAWL_FAILED) @@ ("browser_not_found" :> CRAWL_FAILED)
           @@ ("unexpected" :> INTERNAL_ERROR)
    ELSE IF endpoint \in CrawlEndpoints
      THEN ("auth_required" :> INVALID_PARAMS) @@ ("auth_expired" :> CRAWL_FAILED)
           @@ ("timeout" :> CRAWL_TIMEOUT) @@ ("crawl_failed" :> CRAWL_FAILED)
           @@ ("unexpected" :> INTERNAL_ERROR)
    ELSE <<>>

\* error_code_map.get(e.error_type, BusinessCode.CRAWL_FAILED)
CodeOf(endpoint, error_type) ==
    IF error_type \in DOMAIN error_code_map(endpoint)
      THEN error_code_map(endpoint)[error_type]
      ELSE CRAWL_FAILED

\* error_type values the services raise, and one no map lists
ErrorTypes ==
    {"setup_failed", "browser_not_found", "unexpected", "auth_required", "auth_expired",
     "timeout", "crawl_failed", "link_not_found", "extract_failed", "unknown"}

\* a request passes the checks before the service call, or fails one: the
\* URL is not valid, the platform has no profile, the platform name is not
\* supported (get_platform raises HTTPException)
Requests == {"ok", "invalid_url", "unavailable", "unsupported"}

\* what the service call gives: a dict (with or without profile_path), None,
\* a data object or bool, a CrawlerException, or another exception
ServiceOutcomes(endpoint) ==
    {Ret("success", TRUE), Ret("uncertain", FALSE), RetNone, RetData("True"),
     RetData("False"), RetData("CrawlData"), Raise("other")}
    \cup (IF endpoint \in PlainEndpoints THEN {} ELSE {Raise(t) : t \in ErrorTypes})

\* `except CrawlerException` then `except Exception`; error_type "other"
\* stands for an exception that is not a CrawlerException
NoGenericHandler(endpoint, error_type) ==
    IF error_type = "other" THEN Propagates
    ELSE IF endpoint \in PlainEndpoints THEN error_response(INTERNAL_ERROR)
    ELSE error_response(CodeOf(endpoint, error_type))
Handlers(endpoint, error_type) ==
    IF error_type = "other" THEN error_response(INTERNAL_ERROR)
    ELSE IF endpoint \in PlainEndpoints THEN error_response(INTERNAL_ERROR)
    ELSE error_response(CodeOf(endpoint, error_type))

\* the checks an endpoint makes before it calls the service
BeforeCall(endpoint, request) ==
    IF request = "unsupported" /\ endpoint \in PlatformEndpoints
      THEN Handlers(endpoint, "other")
    ELSE IF request = "unavailable" /\ endpoint \in PlatformEndpoints
      THEN error_response(INVALID_PARAMS)
    ELSE IF request = "invalid_url" /\ endpoint \notin PlainEndpoints \ {"verify_login_status"}
                                    /\ endpoint # "debug_setup_auth_profile"
      THEN error_response(INVALID_URL)
    ELSE success_response

\* the body after the service call returned res
AfterCall(endpoint, res) ==
    IF endpoint \in SetupEndpoints
      \* AuthSetupData(**result) needs status, message and profile_path
      THEN (IF res.kind = "dict" /\ res.profile_path THEN success_response
            ELSE Handlers(endpoint, "other"))
    ELSE IF endpoint \in PlatformEndpoints
      \* XiaohongshuLinksData(**data), XiaohongshuNoteData(**data)
      THEN (IF res.kind \in {"dict", "data"} THEN success_response
            ELSE Handlers(endpoint, "other"))
    ELSE IF endpoint = "delete_auth_profile"
      THEN (IF res = RetData("False") \/ res = RetNone
              THEN error_response(INVALID_PARAMS) ELSE success_response)
    ELSE success_response

\* the endpoint as a whole
Respond(endpoint, request, res) ==
    IF BeforeCall(endpoint, request) # success_response THEN BeforeCall(endpoint, request)
    ELSE IF res.kind = "raise" THEN Handlers(endpoint, res.error_type)
    ELSE AfterCall(endpoint, res)

RespondInputs ==
    { i \in [op : {"respond"}, endpoint : Endpoints, request : Requests,
             res : UNION {ServiceOutcomes(e) : e \in Endpoints}] :
        i.res \in ServiceOutcomes(i.endpoint) }

EndpointResponds ==
    /\ inp.op = "respond" /\ out = NoOutput
    /\ out' = [op |-> "respond", response |-> Respond(inp.endpoint, inp.request, inp.res)]
    /\ UNCHANGED <<profiles, flags, calls, token_cache, now, stored, got, inp>>


(***************************************************************************)
(* delete_auth_profile on a disk that holds the profile directories of two *)
(* sites, then the checks crawl_with_auth and is_available make.  The disk *)
(* is the set of the directories that exist.                               *)
(***************************************************************************)
\* the directory d is path or lies under it
IsUnder(d, path) == Len(d) >= Len(path) /\ SubSeq(d, 1, Len(path)) = path

\* the directories that exist when the given ones do: they and their parents
Tree(paths) == UNION { {SubSeq(d, 1, n) : n \in 0..Len(d)} : d \in paths }

\* Path(profile_path).exists() and os.path.exists(profile_path)
PathExists(path, disk) == path \in disk

\* shutil.rmtree(profile_path)
rmtree(path, disk) == {d \in disk : ~IsUnder(d, path)}

\* delete_auth_profile(site_name): the value returned and the disk after it
delete_auth_profile(site_name, disk) ==
    LET profile_path == get_profile_path(site_name) IN
      IF PathExists(profile_path, disk)
        THEN [ret |-> TRUE, disk |-> rmtree(profile_path, disk)]
        ELSE [ret |-> FALSE, disk |-> disk]

\* BasePlatform.is_available, for the platform whose site is site_name
is_available(site_name, disk) == PathExists(get_profile_path(site_name), disk)

\* the profile check at the head of crawl_with_auth
AuthRequired(site_name, disk) == ~PathExists(get_profile_path(site_name), disk)

DeleteInputs == [op : {"delete_profile"}, s1 : SiteNames, s2 : SiteNames]

\* both profiles exist; s1 is deleted, then both sites are looked at
DeleteProfileThenCheck ==
    /\ inp.op = "delete_profile" /\ out = NoOutput
    /\ LET before == Tree({auth_profiles_dir, get_profile_path(inp.s1),
                           get_profile_path(inp.s2)})
           r == delete_auth_profile(inp.s1, before)
       IN  out' = [op |-> "delete_profile", deleted |-> r.ret,
                   auth_required |-> AuthRequired(inp.s1, r.disk),
                   available |-> is_available(inp.s1, r.disk),
                   other_before |-> is_available(inp.s2, before),
                   other_after |-> is_available(inp.s2, r.disk)]
    /\ UNCHANGED <<profiles, flags, calls, token_cache, now, stored, got, inp>>


\* one call of a function, on any arguments
InitPlatform ==
    /\ profiles = {}
    /\ flags = {}
    /\ calls = [p \in Procs |-> IdleCall]
    /\ token_cache = EmptyCache
    /\ now = 0
    /\ stored = NoStore
    /\ got = NoGet
    /\ inp \in RoundTripInputs \cup ExtractInputs \cup ProfilePathInputs \cup AnalyzeInputs \cup CrawlResponseInputs \cup ResolveInputs \cup SetPathInputs \cup RespondInputs \cup DeleteInputs
    /\ out = NoOutput

NextPlatform == RoundTrip \/ ExtractNotes \/ ProfilePaths \/ AnalyzeLoginStatus \/ CrawlWithAuthResponse \/ ResolveBrowserPath \/ SetCustomPath \/ EndpointResponds \/ DeleteProfileThenCheck

SpecPlatform == InitPlatform /\ [][NextPlatform]_vars


(***************************************************************************)
(* Properties.                                                             *)
(***************************************************************************)
Done(p) == calls[p].pc = "done"
Returned(p) == Done(p) /\ calls[p].res.kind # "raise"
ContractStatuses == {"success", "warning", "timeout", "completed", "error"}
\* the statuses of the dicts _analyze_login_status returns
AnalyzerStatuses == {"success", "likely_logged_in", "not_logged_in", "uncertain", "error"}

\* C1: no two browser sessions are open on the same site's profile directory;
\* in particular, in the documented manual-setup -> verify-login order,
\* verify_login_status has no session open on a site while the manual setup's
\* session on that site is open.
C1_OneSessionPerSite ==
    \A p, q \in Procs :
        (/\ p # q
         /\ calls[p].op = "manual" /\ calls[p].open
         /\ calls[q].op = "verify" /\ calls[q].site = calls[p].site)
        => ~calls[q].open

\* C2: at the moment a manual setup that created the flag returns
\* or raises, the flag of its site does not exist.
C2_NoFlagAtReturn ==
    [][\A p \in Procs :
          (/\ calls[p].op = "manual" /\ calls[p].flag_made
           /\ calls[p].pc = "closing" /\ calls'[p].pc = "done")
          => calls[p].site \notin flags']_vars

\* C3: every dict a setup strategy returns has its status in
\* {success, warning, timeout, completed, error}.
C3_StatusInContract ==
    \A p \in Procs :
        (calls[p].op \in SetupOps /\ Done(p) /\ calls[p].res.kind = "dict")
        => calls[p].res.status \in ContractStatuses

\* C4: every setup strategy that ends without raising returns a dict that
\* carries status, message and profile_path.
C4_StructuredResult ==
    \A p \in Procs :
        (calls[p].op \in SetupOps /\ Returned(p))
        => (calls[p].res.kind = "dict" /\ calls[p].res.profile_path)

\* C5: in every setup strategy, when the navigation to login_url fails the
\* call raises setup_failed, and it has done no waiting-phase sleep or poll,
\* created no flag and issued no navigation to test_url.
C5_LoginFailureIsFatal ==
    \A p \in Procs :
        (calls[p].op \in SetupOps /\ calls[p].login = "failed")
        => /\ ~calls[p].waited /\ ~calls[p].flag_made /\ ~calls[p].tested
           /\ calls[p].pc \in {"err_sleep", "closing", "done"}
           /\ calls[p].pc \in {"closing", "done"} => calls[p].res = Raise("setup_failed")

\* a strategy has raised after an exception in its login navigation
C5_Witness ==
    \E p \in Procs :
        /\ calls[p].op \in {"manual", "debug"} /\ calls[p].login = "failed"
        /\ Done(p) /\ calls[p].res = Raise("setup_failed")

\* C6 (as claimed): after setup with an unreachable login_url the profile
\* directory of the site exists exactly if it existed before the call.
C6_ProfileAsBefore ==
    \A p \in Procs :
        (calls[p].op = "setup" /\ calls[p].login = "failed" /\ Done(p))
        => ((calls[p].site \in profiles) <=> calls[p].pre_profile)

\* C6 (amended): no step of a setup call creates or removes a flag file or
\* removes a profile directory; all it changes is that the profile directory
\* of its site is created by the browser launch.
C6_SetupOnlyCreatesProfile ==
    [][\A p \in Procs :
          (calls[p].op = "setup" /\ calls'[p] # calls[p])
          => /\ flags' = flags
             /\ profiles \subseteq profiles'
             /\ profiles' \subseteq profiles \cup {calls[p].site}]_vars

\* setup was called without a profile directory, its login navigation failed,
\* and the directory exists
C6_Witness ==
    \E p \in Procs :
        /\ calls[p].op = "setup" /\ calls[p].login = "failed" /\ Done(p)
        /\ ~calls[p].pre_profile /\ calls[p].site \in profiles

\* C7: when no browser executable can be resolved, a setup strategy fails
\* before launching a browser with an error of kind browser_not_found.
C7_BrowserNotFoundSurfaces ==
    \A p \in Procs :
        (calls[p].op \in SetupOps /\ calls[p].no_browser)
        => /\ Done(p) /\ ~calls[p].launched
           /\ calls[p].res = Raise("browser_not_found")

TimedStrategies == {"simple_wait", "simple", "manual", "interactive"}

C9_PollingResult ==
    \A p \in Procs :
        (calls[p].op = "simple" /\ calls[p].login = "ok" /\ Done(p))
        => IF calls[p].detected
             THEN calls[p].res = Ret("success", TRUE)
             ELSE calls[p].res = Ret("timeout", TRUE) /\ calls[p].elapsed

\* C10: _get_cached_token returns the TokenInfo last stored by _cache_token
\* exactly if fewer than TTL seconds have passed since it was stored, and
\* None otherwise (at TTL seconds, later, or when nothing was ever stored).
C10_CachedTokenIffFresh ==
    got.done =>
        got.value = (IF stored.done /\ now - stored.at < TTL
                       THEN Some(stored.token_info) ELSE None)

\* a token was stored, exactly TTL seconds have passed, and the read gave None
C10_Witness ==
    /\ got.done /\ stored.done
    /\ now - stored.at = TTL
    /\ got.value = None

\* C11: the cache has one slot: whatever was stored before, the cache holds
\* exactly the TokenInfo of the last _cache_token with the time of that
\* store, and a _get_cached_token that returns a token returns that one,
\* whenever fewer than TTL seconds have passed since that last store.
C11_SingleSlot ==
    /\ token_cache.filled = stored.done
    /\ stored.done =>
         /\ token_cache.token_info = stored.token_info
         /\ token_cache.timestamp = stored.at
         /\ got.done =>
              /\ got.value \subseteq {stored.token_info}
              /\ (now - stored.at < TTL) => got.value = Some(stored.token_info)

\* a second token replaced a different first one, the clock has passed TTL,
\* and the read returns the second token, which is younger than TTL
C11_Witness ==
    /\ got.done /\ stored.done
    /\ stored.before # {} /\ stored.before # Some(stored.token_info)
    /\ now >= TTL /\ stored.at > 0
    /\ got.value = Some(stored.token_info)

\* C12: for every TokenInfo t that holds xsec_token and every note id,
\* _extract_token_from_url(_build_note_url_with_token(id, t)) is t.
C12_RoundTrip ==
    out.op = "round_trip" => out.token_info = Some(inp.token_info)


\* a fallback pattern matches the link occurrence
FallbackMatches(l) == \E pattern \in 1..3 : FallbackPatternMatches(l, pattern)

\* the URL passes the identifier check of the primary strategy
PassesIdCheck(url) ==
    \E id \in parse_content_id_from_url(url) : IdLen(id) >= 20

\* C16: for an input shorter than 1000 characters, whatever links it holds,
\* _extract_xiaohongshu_notes_from_html returns the empty list and runs
\* neither the primary patterns nor the fallback.
C16_ShortInputGivesNothing ==
    (out.op = "extract" /\ ~inp.html.long)
    => (out.notes = <<>> /\ ~out.primary /\ ~out.fallback)

\* a short input that holds a well-formed link with both token parameters
C16_Witness ==
    /\ out.op = "extract" /\ ~inp.html.long
    /\ \E k \in 1..Len(inp.html.links) :
         /\ PrimaryMatches(inp.html.links[k])
         /\ NoteInfo(Url(inp.html.links[k]), inp.html.links[k].note_id).complete_params
    /\ out.notes = <<>>

\* C17: when the primary patterns match something in the input and the
\* fallback patterns would too, the fallback is not invoked and every link
\* returned is the URL of a primary match.
C17_PrimaryTakesPrecedence ==
    (/\ out.op = "extract" /\ inp.html.long
     /\ \E k \in 1..Len(inp.html.links) : PrimaryMatches(inp.html.links[k])
     /\ \E k \in 1..Len(inp.html.links) : FallbackMatches(inp.html.links[k]))
    => /\ ~out.fallback
       /\ \A k \in 1..Len(out.notes) : out.notes[k].url \in AllMatches(inp.html)

\* the input holds one link the primary patterns match and one that only the
\* fallback patterns match, and the link of the primary match is returned
C17_Witness ==
    /\ out.op = "extract" /\ inp.html.long
    /\ Cardinality(AllMatches(inp.html)) = 1
    /\ \E k \in 1..Len(inp.html.links) :
         ~PrimaryMatches(inp.html.links[k]) /\ FallbackMatches(inp.html.links[k])
    /\ Len(out.notes) = 1 /\ ~out.fallback

\* C18: on an input of at least 1000 characters, whenever the primary
\* strategy yields no link (no primary pattern matched, or every match was
\* discarded by the identifier check), the fallback is invoked and its result
\* is returned.
C18_FallbackWhenPrimaryEmpty ==
    (/\ out.op = "extract" /\ inp.html.long
     /\ \A url \in AllMatches(inp.html) : ~PassesIdCheck(url))
    => /\ out.fallback
       /\ out.notes = _fallback_extract_links(inp.html, inp.max_links)

\* C19: in every returned list, the entries with complete_params = true
\* come before the entries with complete_params = false.
C19_CompleteFirst ==
    out.op = "extract"
    => \A i, j \in 1..Len(out.notes) :
         (i < j /\ out.notes[j].complete_params) => out.notes[i].complete_params

\* two links were returned, a complete one and then an incomplete one
C19_Witness ==
    /\ out.op = "extract" /\ Len(out.notes) = 2
    /\ out.notes[1].complete_params /\ ~out.notes[2].complete_params

\* C20: the returned list has at most max_links entries and is the prefix of
\* that length of the complete-first ordering of all extracted links.
C20_SortThenTruncate ==
    (out.op = "extract" /\ out.primary /\ ~out.fallback)
    => /\ Len(out.notes) <= inp.max_links
       /\ \E order \in Orders(AllMatches(inp.html)) :
            out.notes = Prefix(SortCompleteFirst(PrimaryNotes(order)), inp.max_links)



C15_DistinctSitesDistinctPaths ==
    (out.op = "profile_path" /\ inp.s1 # inp.s2) => out.p1 # out.p2


\* C13: a TokenInfo without xsec_token is never cached and never used to
\* build an access URL: the cache is empty or holds a TokenInfo that has
\* xsec_token, and a URL made by _build_note_url_with_token is made from a
\* TokenInfo that has xsec_token and carries an xsec_token parameter.
C13_TokenAlwaysPresent ==
    /\ token_cache.filled => "xsec_token" \in DOMAIN token_cache.token_info
    /\ (out.op = "access" /\ out.built)
       => /\ \A t \in out.token_info : "xsec_token" \in DOMAIN t
          /\ \A u \in out.url : \E k \in 1..Len(u.query) : u.query[k].key = "xsec_token"

\* a token was cached, and a later call built its URL from the cached token
C13_Witness ==
    /\ out.op = "access" /\ out.built /\ out.via = "cache"
    /\ out.url # None /\ token_cache.filled


\* C21: every link extraction returns, by the primary or by the fallback
\* strategy, has an identifier of exactly 24 characters.
C21_CanonicalIdLength ==
    out.op = "extract"
    => \A k \in 1..Len(out.notes) : IdLen(out.notes[k].note_id) = 24


\* the distinct indicators of a list that occur in the page
Present(indicators, html) ==
    {indicators[k] : k \in {j \in 1..Len(indicators) : Contains(html, indicators[j])}}

\* C22: with S the number of distinct logged-in indicators in the page and L
\* the number of distinct not-logged-in indicators, the analysis gives
\* success/high when S > L and S >= 2, else likely_logged_in/medium when
\* S > 0 and L = 0, else not_logged_in/high when L > S, else uncertain/low;
\* so logout, account and dashboard give success/high, only "sign in" gives
\* not_logged_in, and a page without indicators gives uncertain.
C22_ClassifiedByCounts ==
    out.op = "analyze"
    => LET S == Cardinality(Present(success_indicators(inp.site_name), inp.html))
           L == Cardinality(Present(login_indicators(inp.site_name), inp.html))
           verdict == <<out.status, out.confidence>>
       IN  /\ (S > L /\ S >= 2) => verdict = <<"success", "high">>
           /\ (~(S > L /\ S >= 2) /\ S > 0 /\ L = 0)
              => verdict = <<"likely_logged_in", "medium">>
           /\ (~(S > L /\ S >= 2) /\ ~(S > 0 /\ L = 0) /\ L > S)
              => verdict = <<"not_logged_in", "high">>
           /\ (~(S > L /\ S >= 2) /\ ~(S > 0 /\ L = 0) /\ ~(L > S))
              => verdict = <<"uncertain", "low">>
           /\ inp.html = {"logout", "account", "dashboard"} => verdict = <<"success", "high">>
           /\ inp.html = {"sign in"} => out.status = "not_logged_in"
           /\ inp.html = {} => out.status = "uncertain"

\* the page with logout, account and dashboard was analysed
C22_Witness ==
    /\ out.op = "analyze" /\ inp.html = {"logout", "account", "dashboard"}
    /\ out.status = "success" /\ out.confidence = "high"


\* C23: a fixed-wait call fetches login_url once, then only sleeps, then
\* fetches test_url once: it awaits the login fetch only right after the
\* launch, once a sleep has begun it awaits nothing but sleeps until the
\* saving fetch, and after the saving fetch it only closes the browser.
C23_FixedWaitFetchesTwice ==
    [][\A p \in Procs :
          (calls[p].op = "simple_wait" /\ calls'[p] # calls[p])
          => /\ calls'[p].pc = "login" => calls[p].pc = "launching"
             /\ calls[p].pc = "login"
                => calls'[p].pc \in {"sleep", "last_sleep", "save", "closing"}
             /\ (calls[p].pc = "login" /\ calls'[p].pc = "closing")
                => calls'[p].login = "failed"
             /\ calls[p].pc = "sleep" => calls'[p].pc \in {"sleep", "last_sleep", "save"}
             /\ calls[p].pc = "last_sleep" => calls'[p].pc = "save"
             /\ calls[p].pc = "save" => calls'[p].pc = "closing"]_vars

\* a fixed-wait call slept after its login fetch and has returned from its
\* saving fetch
C23_Witness ==
    \E p \in Procs :
        /\ calls[p].op = "simple_wait" /\ Done(p)
        /\ calls[p].login = "ok" /\ calls[p].waited /\ calls[p].tested
        /\ calls[p].res.kind = "dict"


\* C24: the interactive wait loop probes after every sleep; it ends at the
\* first probe that succeeds with the confirmation marker or raises an error
\* that says disconnected/closed, any other probe continues the loop until
\* the accumulated wait reaches setup_timeout, and however the loop ends the
\* final verification of test_url follows and a result is returned.
C24_InteractiveLoopEnds ==
    [][\A p \in Procs :
          (calls[p].op = "interactive" /\ calls'[p] # calls[p])
          => /\ calls[p].pc = "sleep" => calls'[p].pc = "probe"
             /\ calls[p].pc = "probe"
                => IF calls'[p].probe \in {"ok_marker", "closed"}
                     THEN calls'[p].pc = "final"
                   ELSE IF calls[p].i < calls[p].timeout
                     THEN calls'[p].pc = "sleep"
                   ELSE calls'[p].pc = "final"
             /\ calls'[p].pc = "final"
                => \/ calls[p].pc = "probe"
                   \/ calls[p].pc = "login" /\ calls[p].timeout = 0
             /\ calls[p].pc = "final"
                => calls'[p].pc = "closing" /\ calls'[p].res.kind = "dict"]_vars

\* the loop of an interactive call went on after its first probe and ended at
\* its second, before setup_timeout, because the browser was closed; the
\* call is at its final verification
C24_Witness ==
    \E p \in Procs :
        /\ calls[p].op = "interactive" /\ calls[p].pc = "final"
        /\ calls[p].i = 10 /\ calls[p].i < calls[p].timeout
        /\ calls[p].probe = "closed"


\* C25: crawl_with_auth and crawl_markdown_with_auth, called for a site whose
\* profile directory does not exist, raise auth_required at once: no browser
\* path is resolved and no browser is launched.
C25_AuthRequiredWithoutProfile ==
    [][\A p \in Procs :
          (calls[p].pc = "idle" /\ calls'[p].op \in CrawlOps
           /\ calls'[p].site \notin profiles)
          => /\ calls'[p].pc = "done"
             /\ calls'[p].res = Raise("auth_required")
             /\ ~calls'[p].no_browser /\ ~calls'[p].launched /\ ~calls'[p].open
             /\ profiles' = profiles /\ flags' = flags]_vars

\* both operations have raised auth_required for a site without a profile
C25_Witness ==
    \E p, q \in Procs :
        /\ calls[p].op = "crawl" /\ calls[q].op = "crawl_markdown"
        /\ Done(p) /\ Done(q)
        /\ calls[p].res = Raise("auth_required") /\ calls[q].res = Raise("auth_required")
        /\ calls[p].site \notin profiles /\ calls[q].site \notin profiles


\* the response shows an expired login: status 401 or 403, or a login keyword
\* in the body
ExpirySignal(result) ==
    \/ result.status_code \in {401, 403}
    \/ result.html # NoHtml /\ AnyIn(<<"login", "sign in", "signin">>, result.html)

\* C26: a response with status 401 or 403 or with a login keyword in its body
\* makes crawl_with_auth raise auth_expired; crawl_failed is raised only for a
\* failed fetch without either signal, and data is returned only when neither
\* signal is present.
C26_ExpiredOnLoginSignal ==
    out.op = "crawl_response"
    => /\ ExpirySignal(inp.result) => out.res = Raise("auth_expired")
       /\ out.res = Raise("crawl_failed")
          => ~inp.result.success /\ ~ExpirySignal(inp.result)
       /\ out.res.kind = "data" => ~ExpirySignal(inp.result)


\* the first of the environment override, the path in browser_config.txt and
\* the auto-detected path that exists on disk, or "none"
FirstOnDisk(e) ==
    IF EnvValid(e) THEN e.env
    ELSE IF FileValid(e) THEN e.file
    ELSE IF e.auto # Unset THEN e.auto
    ELSE "none"

\* C27: browser resolution, by the service and by BrowserPathManager, returns
\* the first candidate that exists on disk in the order environment override,
\* browser_config.txt, auto-detection; a candidate that is set and missing is
\* skipped, not an error, and nothing is found only when every step fails.
C27_FirstCandidateOnDisk ==
    out.op = "resolve"
    => \A r \in {out.service, out.manager} :
          /\ r # NameError
          /\ FirstOnDisk(inp.e) # "none" => r = FirstOnDisk(inp.e)
          /\ r = "none" => FirstOnDisk(inp.e) = "none"


\* C28: set_custom_path(p) returns True and stores p in browser_config.txt
\* when p exists on disk (and the file can be written), and a following
\* get_chromium_path() without a valid environment override returns p; when
\* p does not exist it returns False, raises nothing and leaves the file as
\* it was.
C28_SetCustomPathPersists ==
    out.op = "set_path"
    => /\ (inp.path \in inp.e.exists /\ inp.e.writable)
          => /\ out.ret = "True" /\ out.file = inp.path
             /\ ~EnvValid(inp.e) => out.get = inp.path
       /\ inp.path \notin inp.e.exists
          => out.ret = "False" /\ out.file = inp.e.file


\* C29: an endpoint of the auth-crawl and platform routers answers every
\* outcome of its service call with an ApiResponse: a CrawlerException gets
\* the business code its error_type maps to (CRAWL_FAILED when the endpoint
\* lists no code for it), any other exception, the HTTPException for an
\* unsupported platform included, gets an error response, no exception leaves
\* the endpoint, and success is true exactly when the code is 200.
C29_AlwaysApiResponse ==
    out.op = "respond"
    => LET r == out.response
           called == BeforeCall(inp.endpoint, inp.request) = success_response
       IN  /\ r.kind = "ApiResponse"
           /\ r.success <=> r.code = SUCCESS
           /\ (called /\ inp.res.kind = "raise" /\ inp.res.error_type # "other")
              => /\ ~r.success
                 /\ r.code \in {INVALID_PARAMS, INTERNAL_ERROR, CRAWL_TIMEOUT, CRAWL_FAILED}
                 /\ inp.res.error_type \notin DOMAIN error_code_map(inp.endpoint)
                    => r.code = CRAWL_FAILED
           /\ (called /\ inp.res = Raise("other")) => ~r.success
           /\ (inp.request = "unsupported" /\ inp.endpoint \in PlatformEndpoints)
              => ~r.success

\* a service call raised an exception that is not a CrawlerException and the
\* endpoint answered with an error response
C29_Witness ==
    /\ out.op = "respond" /\ inp.request = "ok" /\ inp.res = Raise("other")
    /\ out.response = error_response(INTERNAL_ERROR)


\* C30: the flag of site s is deleted only by a close request for s or by the
\* session that created it: while a manual session on s is in its wait loop
\* and the flag exists, a step that is neither a step of that session nor a
\* close request for s leaves the flag in place
CloseRequestStep(s) ==
    \E q \in Procs : /\ calls[q].pc = "idle"
                     /\ calls'[q].op = "close" /\ calls'[q].site = s
C30_FlagDeletedOnlyByOwnerOrClose ==
    [][\A p \in Procs :
          (/\ calls[p].op = "manual" /\ calls[p].pc = "sleep"
           /\ calls[p].site \in flags /\ calls[p].site \notin flags')
          => \/ calls'[p] # calls[p]
             \/ CloseRequestStep(calls[p].site)]_vars


\* C31: when a close request has removed the flag of s while a manual session
\* on s was in its wait loop, the next step of that session (the end of the
\* current 10-second sleep and the flag check) leaves the loop for the final
\* verification of test_url
C31_CloseEndsWaitAtNextCheck ==
    [][\A p \in Procs :
          (/\ calls[p].op = "manual" /\ calls[p].pc = "sleep"
           /\ calls[p].close_seen
           /\ calls'[p] # calls[p])
          => /\ calls'[p].pc = "verify"
             /\ calls'[p].i = calls[p].i + 10]_vars


\* C32: a call of _get_note_access_url (the head of crawl_content_by_id) that
\* finds a token stored less than TTL seconds ago goes on to the note fetch
\* with the URL built from its note id and that token, without fetching the
\* explore page; it fetches the explore page only when the cache is empty or
\* the token is TTL seconds old or older.
C32_CachedTokenSkipsExplore ==
    [][(inp = NoInput /\ inp' # NoInput)
       => IF token_cache.filled /\ now - token_cache.timestamp < TTL
            THEN /\ inp'.pc = "crawl"
                 /\ out'.via = "cache"
                 /\ out'.url = Some(_build_note_url_with_token(
                                        inp'.note_id, token_cache.token_info))
            ELSE inp'.pc = "links" /\ out' = NoOutput]_vars

\* a call was answered from a token stored TTL - 1 seconds before
C32_Witness ==
    /\ inp.op = "access" /\ inp.pc = "crawl"
    /\ out.op = "access" /\ out.via = "cache"
    /\ token_cache.filled /\ now - token_cache.timestamp = TTL - 1
    /\ out.url = Some(_build_note_url_with_token(inp.note_id, token_cache.token_info))


\* C33: every setup strategy terminates for every timeout value, provided
\* each navigation and each sleep returns: a setup call that is under way
\* eventually has its result (returned or raised), also when every poll
\* fetch raises.
C33_SetupTerminates ==
    \A p \in Procs :
        (calls[p].op \in SetupOps /\ Awaited(p)) ~> (calls[p].pc = "done")

\* a polling setup ran its loop to the timeout and ended with status timeout
C33_Witness ==
    /\ calls[MainCall].op = "simple" /\ calls[MainCall].pc = "done"
    /\ calls[MainCall].waited /\ calls[MainCall].elapsed
    /\ calls[MainCall].res.status = "timeout"


\* the explore page gave nothing to make an access URL from: the extraction
\* raised, returned no links, or returned links none of which is the note
\* and the first of which has no xsec_token
NothingUsable(o) ==
    \/ o.explored = "raised"
    \/ /\ o.explored = "links"
       /\ \/ o.notes = <<>>
          \/ /\ \A k \in 1..Len(o.notes) : o.notes[k].note_id # o.note_id
             /\ _extract_token_from_url(o.notes[1].url) = None

\* C34: when the cache gives no token and the explore page gives nothing
\* usable, crawl_content_by_id raises link_not_found and no content fetch is
\* launched; a failed extraction never shows as extract_failed.
C34_LinkNotFoundWithoutUrl ==
    /\ (out.op = "access" /\ NothingUsable(out))
       => /\ out.res = "link_not_found" /\ out.url = None
          /\ inp = NoInput
    /\ out.op = "access" => out.res # "extract_failed"

\* the explore page returned links, none the note and the first without
\* xsec_token, and the call raised link_not_found
C34_Witness ==
    /\ out.op = "access" /\ out.explored = "links" /\ out.notes # <<>>
    /\ NothingUsable(out)
    /\ out.res = "link_not_found"


\* C35: with crawl_content_by_id calls overlapping on the shared platform
\* object, the cache slot is empty or holds the token and the timestamp of
\* one store (the last one), and a call that reads the slot gets nothing or
\* the token of that store, read less than TTL seconds after it.
C35_SlotWrittenTogether ==
    /\ token_cache.filled = stored.done
    /\ token_cache.filled
       => /\ token_cache.token_info = stored.token_info
          /\ token_cache.timestamp = stored.at
    /\ got.done => got.value \subseteq {token_cache.token_info}

\* two calls overlap, one waits for the explore page and the other for the
\* note page, and the slot holds a second store that replaced another token
\* at a later time
C35_Witness ==
    /\ \E p, q \in Procs : /\ calls[p].op = "content" /\ calls[p].pc = "links"
                           /\ calls[q].op = "content" /\ calls[q].pc = "crawl"
    /\ stored.done /\ stored.at > 0
    /\ stored.before # {} /\ stored.before # Some(stored.token_info)
    /\ token_cache.token_info = stored.token_info


\* what verify_login_status returns for a page it fetched
VerifyAnswers(s) == {_analyze_login_status(html, s) : html \in Pages}

\* C36: verify_login_status never raises, and what it returns is a record
\* with status error unless it is the analysis of a page its own browser
\* fetched (a missing browser gives status error); called when no flag exists
\* for the site, it returns status error at once, without resolving or
\* launching a browser.
C36_VerifyReturnsErrors ==
    /\ [](\A p \in Procs :
            calls[p].op = "verify"
            => /\ calls[p].res.kind \in {"pending", "dict"}
               /\ calls[p].res.kind = "dict"
                  => \/ calls[p].res.status = "error"
                     \/ /\ calls[p].launched
                        /\ calls[p].res \in VerifyAnswers(calls[p].site)
               /\ calls[p].no_browser => calls[p].res.status = "error")
    /\ [][\A p \in Procs :
            (/\ calls[p].pc = "idle" /\ calls'[p].op = "verify"
             /\ calls'[p].site \notin flags)
            => /\ calls'[p].pc = "done"
               /\ calls'[p].res = Ret("error", FALSE)
               /\ ~calls'[p].no_browser /\ ~calls'[p].tested]_vars

\* a verify call without a flag has returned status error, no browser
\* resolved, while another verify call found no browser and returned error
C36_Witness ==
    \E p, q \in Procs :
        /\ calls[p].op = "verify" /\ calls[p].pc = "done"
        /\ calls[p].res.status = "error"
        /\ ~calls[p].tested /\ ~calls[p].no_browser
        /\ calls[q].op = "verify" /\ calls[q].pc = "done"
        /\ calls[q].no_browser /\ calls[q].res.status = "error"


\* C37: close_browser_session(s) returns success exactly when the flag of s
\* existed at the call, and the flag is then gone; otherwise it returns
\* warning and changes nothing.  Hence, once a close request has removed the
\* flag of s, the flag stays absent (a second close returns warning) until a
\* new manual session for s is started: no manual session that was already
\* under way at the close writes the flag afterwards.
C37_CloseReportsFlag ==
    /\ [][\A p \in DOMAIN calls :
            (calls[p].pc = "idle" /\ calls'[p].op = "close")
            => LET s == calls'[p].site IN
                 /\ profiles' = profiles
                 /\ IF s \in flags
                      THEN /\ calls'[p].res.status = "success"
                           /\ flags' = flags \ {s}
                      ELSE /\ calls'[p].res.status = "warning"
                           /\ flags' = flags
                           /\ \A q \in DOMAIN calls \ {p} : calls'[q] = calls[q]]_vars
    /\ [][\A q \in DOMAIN calls :
            (/\ calls[q].op = "manual" /\ calls[q].pc \in {"launching", "login"}
             /\ calls[q].close_seen /\ calls[q].site \notin flags)
            => calls[q].site \notin flags']_vars


\* C38: after delete_auth_profile(s) has returned True, crawl_with_auth(s)
\* answers auth_required and the availability check of s answers false (no
\* browser was launched on s since), and the profile of any other site exists
\* exactly when it existed before.
C38_DeletedProfileAbsent ==
    (out.op = "delete_profile" /\ out.deleted)
    => /\ out.auth_required /\ ~out.available
       /\ inp.s1 # inp.s2 => out.other_after = out.other_before

====
